---- MODULE Spec2Model ----
(***************************************************************************)
(* A model of the work tracker: the domain records of models.py (Employee, *)
(* Task, Project), the DatabaseManager of storage.py over its three SQLite *)
(* tables, and the aggregations of WorkAnalytics (analytics.py).           *)
(*                                                                         *)
(* Python values are modelled as follows.                                  *)
(*   - None is the empty tuple <<>>; a value that may be None (an          *)
(*     identifier, an assigned employee, a fetched entity) is <<>> or the  *)
(*     one-element tuple <<v>>.                                            *)
(*   - a text (name, title, position, description) is a sequence of        *)
(*     one-character strings, so that str.strip() can be computed.         *)
(*   - a number (salary, hours) is an integer.                             *)
(*   - the two status literals of models.py are written in ASCII:          *)
(*     "in_progress" for the source's first status, "completed" for the    *)
(*     second.                                                             *)
(* A table is a function from the row identifiers that exist to the row's  *)
(* other columns.  SQLite's column affinity keeps a text a text and a      *)
(* number the same number, and a NULL a NULL, so a bound parameter is      *)
(* stored as the value it is.                                              *)
(***************************************************************************)
EXTENDS Integers, Sequences, FiniteSets, TLC

VARIABLES
    employees,  \* table employees: id -> [name, position, salary, hours_worked]
    projects,   \* table projects:  id -> [title]
    tasks,      \* table tasks:     id -> [title, description, status, employee_id, project_id]
    seq,        \* sqlite_sequence: the largest identifier AUTOINCREMENT has issued, per table
    last,       \* the pending call: its name, its argument as the caller sees it after
                \* the call, the value returned, the exception raised and
                \* cursor.rowcount of each statement executed
    old,        \* the tables and counters (or the object) as they were when the
                \* pending call was made
    connection, \* DatabaseManager._connection: None or the open connection
    emp,        \* an Employee object held by a caller (models.py)
    task,       \* a Task object held by a caller (models.py)
    proj,       \* a Project object held by a caller (models.py)
    committed,  \* the database file: the tables that exist in it, with the rows
                \* and counters of the last commit (what another connection reads)
    analytics,  \* a WorkAnalytics object: the two lists it was constructed with
    heap        \* the objects the read operations of the store have constructed,
                \* by address: a caller holds an object by its address

storeVars == <<employees, projects, tasks, seq>>
objectVars == <<emp, task, proj, analytics, heap>>
vars == <<employees, projects, tasks, seq, connection, committed, last, old,
          emp, task, proj, analytics, heap>>

----------------------------------------------------------------------------
(* Bounds of the model *)

\* the INSERT statements a run of the model executes (the identifiers it issues)
MaxInserts == 4

\* the longest text a caller passes to a constructor or a setter of models.py
MaxStrLen == 2

\* the hours an Employee object accrues at most
MaxHours == 300

\* the tasks a Project object holds at most
MaxTasks == 3

\* the employees a WorkAnalytics object is given at most
MaxEmployees == 3

\* the objects the read operations of the store construct at most
MaxObjects == 5

----------------------------------------------------------------------------
(* Python's None and optional values *)

None == <<>>
Some(x) == <<x>>
Get(o) == o[1]

\* The identifiers a caller can pass or an object can carry: None or 1..n.
IdValues(n) == {None} \cup {Some(i) : i \in 1..n}

----------------------------------------------------------------------------
(* models.py: the records *)

IN_PROGRESS == "in_progress"
COMPLETED == "completed"
STATUSES == <<IN_PROGRESS, COMPLETED>>

Employee(name, position, salary, hours_worked, employee_id) ==
    [id |-> employee_id, name |-> name, position |-> position,
     salary |-> salary, hours_worked |-> hours_worked]

Task(title, description, status, assigned_employee, task_id, project_id) ==
    [id |-> task_id, title |-> title, description |-> description,
     status |-> status, assigned_employee |-> assigned_employee,
     project_id |-> project_id]

Project(title, project_id) ==
    [id |-> project_id, title |-> title, tasks |-> <<>>]

\* Project.set_tasks
set_tasks(project, ts) == [project EXCEPT !.tasks = ts]

----------------------------------------------------------------------------
(* The entities the callers of the store pass to it *)

Ann == <<"A", "n", "n">>
Bob == <<"B", "o", "b">>
Dev == <<"d", "e", "v">>
Empty == <<>>

EmployeeData ==
    { [name |-> Ann, position |-> Dev, salary |-> 100000, hours_worked |-> 0],
      [name |-> Bob, position |-> Empty, salary |-> 0, hours_worked |-> 176] }

\* The identifiers AUTOINCREMENT has issued in a table whose counter is n, and
\* None: what an object a caller built or fetched may carry.
IssuedIds(n) == IdValues(n)

\* The identifiers a caller may look up: the issued ones, None, and one that
\* was never issued.
LookupIds(n) == IdValues(n + 1)

EmployeeArgs(ids) ==
    { Employee(d.name, d.position, d.salary, d.hours_worked, i) :
        d \in EmployeeData, i \in ids }

ProjectArgs(ids) ==
    { Project(t, i) : t \in {Ann, Bob}, i \in ids }

TaskData ==
    { [title |-> Ann, description |-> Empty, status |-> IN_PROGRESS],
      [title |-> Bob, description |-> Dev, status |-> COMPLETED] }

\* A task refers to no employee or holds an Employee object; the store reads
\* only the identifier of that object.
AssignedArgs(employee_ids) ==
    {None} \cup { Some(Employee(Ann, Dev, 100000, 0, i)) : i \in employee_ids }

TaskArgs(ids, employee_ids, project_ids) ==
    { Task(d.title, d.description, d.status, a, i, p) :
        d \in TaskData, a \in AssignedArgs(employee_ids),
        i \in ids, p \in project_ids }

----------------------------------------------------------------------------
(* SQL over the tables *)

\* column = ? : NULL equals nothing, itself included
SqlEq(column, value) == column # None /\ value # None /\ column = value

\* ... WHERE id = ? on a table keyed by id
RowExists(table, id) == id # None /\ Get(id) \in DOMAIN table

\* INSERT INTO table: AUTOINCREMENT issues one more than the largest
\* identifier the table ever held
InsertRow(table, id, row) ==
    [i \in DOMAIN table \cup {id} |-> IF i = id THEN row ELSE table[i]]

\* INSERT OR REPLACE in place of UPDATE: a row that is missing is created
UpsertRow(table, id, row) ==
    IF id = None THEN table
    ELSE [i \in DOMAIN table \cup {Get(id)} |-> IF i = Get(id) THEN row ELSE table[i]]

\* UPDATE without its WHERE clause: every row of a table that holds the
\* identifier is overwritten
UpdateEveryRow(table, id, row) ==
    [i \in DOMAIN table |->
        IF id # None /\ Get(id) \in DOMAIN table THEN row ELSE table[i]]

\* UPDATE table SET <all columns> WHERE id = ?
UpdateRow(table, id, row) ==
    [i \in DOMAIN table |-> IF SqlEq(Some(i), id) THEN row ELSE table[i]]

\* DELETE with WHERE id <= ? in place of WHERE id = ?
DeleteRowsUpTo(table, id) ==
    [i \in {j \in DOMAIN table : id = None \/ j > Get(id)} |-> table[i]]

\* DELETE FROM table WHERE id = ?
DeleteRow(table, id) ==
    [i \in {j \in DOMAIN table : ~SqlEq(Some(j), id)} |-> table[i]]

\* the rows a statement with WHERE id = ? touches
RowCount(table, id) == IF RowExists(table, id) THEN 1 ELSE 0

\* the identifiers of a table in the order SELECT returns them (by rowid)
RECURSIVE SortedIds(_)
SortedIds(S) ==
    IF S = {} THEN <<>>
    ELSE LET m == CHOOSE x \in S : \A y \in S : x <= y
         IN <<m>> \o SortedIds(S \ {m})

----------------------------------------------------------------------------
(* storage.py: DatabaseManager *)

\* sqlite3.connect(self._db_name): the open connection to the database file
Connected == Some("work_tracker.db")

\* a method that uses self._connection as it is, without acquiring one
held_connection == connection

\* the connection a method works on: the one held, or a new one when none is held
_get_connection == IF connection = None THEN Connected ELSE connection

\* the tables and counters of a database file in which the three tables exist
Database(es, ps, ts, counters) ==
    [employees |-> es, projects |-> ps, tasks |-> ts, seq |-> counters]

\* a database file in which no table exists
NewFile == <<>>

\* conn.commit(): the rows the method has written become those of the file
commit == committed' = Database(employees', projects', tasks', seq')

\* No call is pending: the caller is between two calls.
NoCall == [op |-> "idle", arg |-> None, ret |-> None, exc |-> None, rowcount |-> <<>>]

\* A call is made between two calls and leaves its record in `last`.
Call(op, arg, ret, rowcount) ==
    /\ last = NoCall
    /\ last' = [op |-> op, arg |-> arg, ret |-> ret, exc |-> None,
                rowcount |-> rowcount]
    /\ old' = [employees |-> employees, projects |-> projects, tasks |-> tasks,
               seq |-> seq, connection |-> connection, committed |-> committed]
    /\ connection' = _get_connection

\* the INSERT statements executed so far
Inserts == seq.employees + seq.projects + seq.tasks

EmployeeRow(employee) ==
    [name |-> employee.name, position |-> employee.position,
     salary |-> employee.salary, hours_worked |-> employee.hours_worked]

ProjectRow(project) == [title |-> project.title]

\* employee = task.get_assigned_employee(); employee.get_id() if employee else None
AssignedId(t) ==
    IF t.assigned_employee # None THEN Get(t.assigned_employee).id ELSE None

TaskRow(t) ==
    [title |-> t.title, description |-> t.description, status |-> t.status,
     employee_id |-> AssignedId(t), project_id |-> t.project_id]

\* add_employee on a table whose key is not AUTOINCREMENT: the new row gets
\* one more than the largest identifier in the table
add_employee_rowid(employee) ==
    LET lastrowid == IF DOMAIN employees = {} THEN 1
                     ELSE 1 + CHOOSE i \in DOMAIN employees :
                                  \A j \in DOMAIN employees : j <= i
    IN
    /\ Call("add_employee", employee, Some(lastrowid), <<1>>)
    /\ Inserts < MaxInserts
    /\ employees' = InsertRow(employees, lastrowid, EmployeeRow(employee))
    /\ seq' = [seq EXCEPT !.employees = lastrowid]
    /\ UNCHANGED <<projects, tasks, objectVars>>
    /\ commit

add_employee(employee) ==
    LET lastrowid == seq.employees + 1 IN
    /\ Call("add_employee", employee, Some(lastrowid), <<1>>)
    /\ Inserts < MaxInserts
    /\ employees' = InsertRow(employees, lastrowid, EmployeeRow(employee))
    /\ seq' = [seq EXCEPT !.employees = lastrowid]
    /\ UNCHANGED <<projects, tasks, objectVars>>
    /\ commit

update_employee(employee) ==
    /\ Call("update_employee", employee, None,
                    <<RowCount(employees, employee.id)>>)
    /\ employees' = UpdateRow(employees, employee.id, EmployeeRow(employee))
    /\ UNCHANGED <<projects, tasks, seq, objectVars>>
    /\ commit

\* DELETE FROM tasks WHERE employee_id=? in place of the UPDATE: a cascade
DeleteTasksOfEmployee(ts, employee_id) ==
    [t \in {u \in DOMAIN ts : ~SqlEq(ts[u].employee_id, employee_id)} |-> ts[t]]

\* UPDATE tasks SET employee_id=NULL WHERE employee_id=?
NullifyEmployee(ts, employee_id) ==
    [t \in DOMAIN ts |->
        IF SqlEq(ts[t].employee_id, employee_id)
        THEN [ts[t] EXCEPT !.employee_id = None]
        ELSE ts[t]]

delete_employee(employee_id) ==
    /\ Call("delete_employee", employee_id, None,
                    <<Cardinality({t \in DOMAIN tasks :
                                      SqlEq(tasks[t].employee_id, employee_id)}),
                      RowCount(employees, employee_id)>>)
    /\ tasks' = NullifyEmployee(tasks, employee_id)
    /\ employees' = DeleteRow(employees, employee_id)
    /\ UNCHANGED <<projects, seq, objectVars>>
    /\ commit

\* SELECT without its WHERE clause: fetchone() is the first row of the table
get_first_employee(employee_id) ==
    IF DOMAIN employees # {}
    THEN LET first == CHOOSE i \in DOMAIN employees : \A j \in DOMAIN employees : i <= j
             row == employees[first]
         IN Some(Employee(row.name, row.position, row.salary,
                          row.hours_worked, Some(first)))
    ELSE None

get_employee_by_id(employee_id) ==
    IF RowExists(employees, employee_id)
    THEN LET row == employees[Get(employee_id)]
         IN Some(Employee(row.name, row.position, row.salary,
                          row.hours_worked, employee_id))
    ELSE None

get_all_employees ==
    LET ids == SortedIds(DOMAIN employees)
    IN [k \in 1..Len(ids) |-> Get(get_employee_by_id(Some(ids[k])))]

----------------------------------------------------------------------------
(* storage.py: projects *)

add_project(project) ==
    LET lastrowid == seq.projects + 1 IN
    /\ Call("add_project", project, Some(lastrowid), <<1>>)
    /\ Inserts < MaxInserts
    /\ projects' = InsertRow(projects, lastrowid, ProjectRow(project))
    /\ seq' = [seq EXCEPT !.projects = lastrowid]
    /\ UNCHANGED <<employees, tasks, objectVars>>
    /\ commit

update_project(project) ==
    /\ Call("update_project", project, None,
                    <<RowCount(projects, project.id)>>)
    /\ projects' = UpdateRow(projects, project.id, ProjectRow(project))
    /\ UNCHANGED <<employees, tasks, seq, objectVars>>
    /\ commit

\* DELETE FROM tasks WHERE id=? in place of WHERE project_id=?
DeleteTaskNumbered(ts, project_id) ==
    [t \in {u \in DOMAIN ts : ~SqlEq(Some(u), project_id)} |-> ts[t]]

\* DELETE FROM tasks WHERE project_id=?
DeleteTasksOfProject(ts, project_id) ==
    [t \in {u \in DOMAIN ts : ~SqlEq(ts[u].project_id, project_id)} |-> ts[t]]

delete_project(project_id) ==
    /\ Call("delete_project", project_id, None,
                    <<Cardinality({t \in DOMAIN tasks :
                                      SqlEq(tasks[t].project_id, project_id)}),
                      RowCount(projects, project_id)>>)
    /\ tasks' = DeleteTasksOfProject(tasks, project_id)
    /\ projects' = DeleteRow(projects, project_id)
    /\ UNCHANGED <<employees, seq, objectVars>>
    /\ commit

----------------------------------------------------------------------------
(* storage.py: tasks *)

add_task(t) ==
    LET lastrowid == seq.tasks + 1 IN
    /\ Call("add_task", t, Some(lastrowid), <<1>>)
    /\ Inserts < MaxInserts
    /\ tasks' = InsertRow(tasks, lastrowid, TaskRow(t))
    /\ seq' = [seq EXCEPT !.tasks = lastrowid]
    /\ UNCHANGED <<employees, projects, objectVars>>
    /\ commit

update_task(t) ==
    /\ Call("update_task", t, None, <<RowCount(tasks, t.id)>>)
    /\ tasks' = UpdateRow(tasks, t.id, TaskRow(t))
    /\ UNCHANGED <<employees, projects, seq, objectVars>>
    /\ commit

delete_task(task_id) ==
    /\ Call("delete_task", task_id, None, <<RowCount(tasks, task_id)>>)
    /\ tasks' = DeleteRow(tasks, task_id)
    /\ UNCHANGED <<employees, projects, seq, objectVars>>
    /\ commit

\* the loop body of get_tasks_by_project and get_all_tasks: one row to one Task
HydrateTask(id) ==
    LET row == tasks[id]
        employee == IF row.employee_id # None
                    THEN get_employee_by_id(row.employee_id)
                    ELSE None
    IN Task(row.title, row.description, row.status, employee,
            Some(id), row.project_id)

get_tasks_by_project(project_id) ==
    LET ids == SortedIds({t \in DOMAIN tasks :
                             SqlEq(tasks[t].project_id, project_id)})
    IN [k \in 1..Len(ids) |-> HydrateTask(ids[k])]

get_all_tasks ==
    LET ids == SortedIds(DOMAIN tasks)
    IN [k \in 1..Len(ids) |-> HydrateTask(ids[k])]

get_project_by_id(project_id) ==
    IF RowExists(projects, project_id)
    THEN LET row == projects[Get(project_id)]
             project == Project(row.title, project_id)
         IN Some(set_tasks(project, get_tasks_by_project(project.id)))
    ELSE None

get_all_projects ==
    LET ids == SortedIds(DOMAIN projects)
    IN [k \in 1..Len(ids) |-> Get(get_project_by_id(Some(ids[k])))]

----------------------------------------------------------------------------
(* The read operations as calls: they return and change no table *)

Query(op, arg, ret) ==
    /\ Call(op, arg, ret, <<>>)
    /\ UNCHANGED <<storeVars, committed, objectVars>>

query_get_employee_by_id(employee_id) ==
    Query("get_employee_by_id", employee_id, get_employee_by_id(employee_id))

query_get_all_employees ==
    Query("get_all_employees", None, get_all_employees)

query_get_project_by_id(project_id) ==
    Query("get_project_by_id", project_id, get_project_by_id(project_id))

query_get_all_projects ==
    Query("get_all_projects", None, get_all_projects)

query_get_tasks_by_project(project_id) ==
    Query("get_tasks_by_project", project_id, get_tasks_by_project(project_id))

query_get_all_tasks ==
    Query("get_all_tasks", None, get_all_tasks)

----------------------------------------------------------------------------
(* The store: DatabaseManager() on a new file, then any calls *)

\* DatabaseManager.close: closes the connection if one is held and forgets it.
\* Connection.close() commits nothing: what a method wrote and did not commit
\* is lost with the connection, and the rows are those of the file.
close ==
    /\ last = NoCall
    /\ last' = [op |-> "close", arg |-> None, ret |-> None, exc |-> None,
                rowcount |-> <<>>]
    /\ old' = [employees |-> employees, projects |-> projects, tasks |-> tasks,
               seq |-> seq, connection |-> connection, committed |-> committed]
    /\ connection' = IF connection # None THEN None ELSE connection
    /\ employees' = IF connection # None THEN committed.employees ELSE employees
    /\ projects' = IF connection # None THEN committed.projects ELSE projects
    /\ tasks' = IF connection # None THEN committed.tasks ELSE tasks
    /\ seq' = IF connection # None THEN committed.seq ELSE seq
    /\ UNCHANGED <<committed, objectVars>>

\* The caller takes the result of the call and is ready for the next one.
Return ==
    /\ last # NoCall
    /\ last' = NoCall
    /\ old' = None
    /\ UNCHANGED <<storeVars, connection, committed, objectVars>>

Init ==
    /\ employees = <<>>
    /\ projects = <<>>
    /\ tasks = <<>>
    /\ seq = [employees |-> 0, projects |-> 0, tasks |-> 0]
    /\ connection = Connected
    /\ committed = Database(<<>>, <<>>, <<>>,
                            [employees |-> 0, projects |-> 0, tasks |-> 0])
    /\ last = NoCall
    /\ old = None
    /\ emp = None
    /\ task = None
    /\ proj = None
    /\ analytics = None
    /\ heap = <<>>

Next ==
    \/ \E e \in EmployeeArgs({None}) : add_employee(e)
    \/ \E e \in EmployeeArgs(IssuedIds(seq.employees)) : update_employee(e)
    \/ \E i \in LookupIds(seq.employees) : delete_employee(i)
    \/ \E p \in ProjectArgs({None}) : add_project(p)
    \/ \E p \in ProjectArgs(IssuedIds(seq.projects)) : update_project(p)
    \/ \E i \in LookupIds(seq.projects) : delete_project(i)
    \/ \E t \in TaskArgs({None}, IssuedIds(seq.employees), IssuedIds(seq.projects)) :
            add_task(t)
    \/ \E t \in TaskArgs(IssuedIds(seq.tasks), IssuedIds(seq.employees) \ {None},
                         IssuedIds(seq.projects)) :
            update_task(t)
    \/ \E i \in LookupIds(seq.tasks) : delete_task(i)
    \/ \E i \in LookupIds(seq.employees) : query_get_employee_by_id(i)
    \/ query_get_all_employees
    \/ \E i \in LookupIds(seq.projects) : query_get_project_by_id(i)
    \/ query_get_all_projects
    \/ \E i \in LookupIds(seq.projects) : query_get_tasks_by_project(i)
    \/ query_get_all_tasks
    \/ Return

Spec == Init /\ [][Next]_vars

\* DROP TABLE name and CREATE TABLE name: the table is created anew, whether
\* it exists or not
DropAndCreateTable(file, name) ==
    [n \in DOMAIN file \cup {name, "seq"} |->
        IF n = name THEN <<>>
        ELSE IF n # "seq" THEN file[n]
        ELSE IF "seq" \in DOMAIN file THEN [file.seq EXCEPT ![name] = 0]
        ELSE [employees |-> 0, projects |-> 0, tasks |-> 0]]

\* CREATE TABLE IF NOT EXISTS name (id INTEGER PRIMARY KEY AUTOINCREMENT, ...):
\* a table that exists is left as it is, with its rows and its counter; a
\* table that is created has no row and has issued no identifier
CreateTableIfNotExists(file, name) ==
    IF name \in DOMAIN file THEN file
    ELSE [n \in DOMAIN file \cup {name, "seq"} |->
            IF n = name THEN <<>>
            ELSE IF n # "seq" THEN file[n]
            ELSE IF "seq" \in DOMAIN file THEN [file.seq EXCEPT ![name] = 0]
            ELSE [employees |-> 0, projects |-> 0, tasks |-> 0]]

\* DatabaseManager._init_database: the three CREATE TABLE statements, committed
_init_database(file) ==
    CreateTableIfNotExists(
        CreateTableIfNotExists(
            CreateTableIfNotExists(file, "employees"), "projects"), "tasks")

\* DatabaseManager(db_name): a new object, with a connection of its own to
\* the file, that reads the rows the file holds
DatabaseManager ==
    /\ last = NoCall
    /\ last' = [op |-> "DatabaseManager", arg |-> None, ret |-> None,
                exc |-> None, rowcount |-> <<>>]
    /\ old' = [employees |-> employees, projects |-> projects, tasks |-> tasks,
               seq |-> seq, connection |-> connection, committed |-> committed]
    /\ connection' = Connected
    /\ committed' = _init_database(committed)
    /\ employees' = committed'.employees
    /\ projects' = committed'.projects
    /\ tasks' = committed'.tasks
    /\ seq' = committed'.seq
    /\ UNCHANGED objectVars

\* No DatabaseManager was constructed yet: the file is new
InitStartup ==
    /\ employees = <<>>
    /\ projects = <<>>
    /\ tasks = <<>>
    /\ seq = [employees |-> 0, projects |-> 0, tasks |-> 0]
    /\ connection = None
    /\ committed = NewFile
    /\ last = NoCall
    /\ old = None
    /\ emp = None
    /\ task = None
    /\ proj = None
    /\ analytics = None
    /\ heap = <<>>

\* The application is started, used and shut down any number of times: a
\* DatabaseManager is constructed on the file, new or not, and the one
\* constructed last is called and closed
NextStartup ==
    \/ DatabaseManager
    \/ committed # NewFile /\ close
    \/ /\ committed # NewFile
       /\ Next
       /\ seq'.employees + seq'.projects + seq'.tasks < MaxInserts

SpecStartup == InitStartup /\ [][NextStartup]_vars

\* delete_employee, a statement at a time.  While the method runs `last.op`
\* is the statement executed last; what it has written is in the rows the
\* connection reads and not in the file until conn.commit().
UpdateExecuted == "UPDATE tasks SET employee_id=NULL"
DeleteExecuted == "DELETE FROM employees"

\* sqlite3.Error: a fault of the store, raised by execute() or commit()
StoreFault == Some("sqlite3.Error")

\* the DELETE executed first: the employee row is removed before the tasks
\* that refer to it are updated
execute_delete_first(employee_id) ==
    /\ last = NoCall
    /\ last' = [op |-> UpdateExecuted, arg |-> employee_id, ret |-> None,
                exc |-> None, rowcount |-> <<RowCount(employees, employee_id)>>]
    /\ old' = [employees |-> employees, projects |-> projects, tasks |-> tasks,
               seq |-> seq, connection |-> connection, committed |-> committed]
    /\ connection' = _get_connection
    /\ employees' = DeleteRow(employees, employee_id)
    /\ UNCHANGED <<projects, tasks, seq, committed, objectVars>>

\* cursor.execute('UPDATE tasks SET employee_id=NULL WHERE employee_id=?')
execute_update_tasks(employee_id) ==
    /\ last = NoCall
    /\ last' = [op |-> UpdateExecuted, arg |-> employee_id, ret |-> None,
                exc |-> None,
                rowcount |-> <<Cardinality({t \in DOMAIN tasks :
                                   SqlEq(tasks[t].employee_id, employee_id)})>>]
    /\ old' = [employees |-> employees, projects |-> projects, tasks |-> tasks,
               seq |-> seq, connection |-> connection, committed |-> committed]
    /\ connection' = _get_connection
    /\ tasks' = NullifyEmployee(tasks, employee_id)
    /\ UNCHANGED <<employees, projects, seq, committed, objectVars>>

\* cursor.execute('DELETE FROM employees WHERE id=?')
execute_delete_employee ==
    /\ last.op = UpdateExecuted
    /\ last' = [last EXCEPT !.op = DeleteExecuted,
                            !.rowcount = Append(@, RowCount(employees, last.arg))]
    /\ employees' = DeleteRow(employees, last.arg)
    /\ UNCHANGED <<projects, tasks, seq, connection, committed, old, objectVars>>

\* conn.commit(), and the method returns
commit_delete_employee ==
    /\ last.op = DeleteExecuted
    /\ last' = [last EXCEPT !.op = "delete_employee"]
    /\ committed' = Database(employees, projects, tasks, seq)
    /\ UNCHANGED <<storeVars, connection, old, objectVars>>

\* The second statement, or the commit, raises: the exception leaves the
\* method, which has committed nothing and rolled nothing back.
fault_in_delete_employee ==
    /\ last.op \in {UpdateExecuted, DeleteExecuted}
    /\ last' = [last EXCEPT !.op = "delete_employee", !.exc = StoreFault]
    /\ UNCHANGED <<storeVars, connection, committed, old, objectVars>>

\* The store, its delete_employee a statement at a time and open to a fault,
\* between the calls of a run of one INSERT fewer
NextDeleteEmployee ==
    \/ \E i \in LookupIds(seq.employees) : execute_update_tasks(i)
    \/ execute_delete_employee
    \/ commit_delete_employee
    \/ fault_in_delete_employee
    \/ close
    \/ Next /\ seq'.employees + seq'.projects + seq'.tasks < MaxInserts

SpecDeleteEmployee == Init /\ [][NextDeleteEmployee]_vars

\* A caller constructs an Employee object e, saves it with add_employee(e),
\* and saves tasks assigned to that object with add_task; it adds projects
\* and reads the tasks back.
InitAssignment ==
    /\ employees = <<>>
    /\ projects = <<>>
    /\ tasks = <<>>
    /\ seq = [employees |-> 0, projects |-> 0, tasks |-> 0]
    /\ connection = Connected
    /\ committed = Database(<<>>, <<>>, <<>>,
                            [employees |-> 0, projects |-> 0, tasks |-> 0])
    /\ last = NoCall
    /\ old = None
    /\ emp \in EmployeeArgs({None})
    /\ task = None
    /\ proj = None
    /\ analytics = None
    /\ heap = <<>>

NextAssignment ==
    \/ seq.employees = 0 /\ add_employee(emp)
    \/ \E p \in ProjectArgs({None}) : add_project(p)
    \/ /\ seq.employees = 1
       /\ \E d \in TaskData : \E p \in IssuedIds(seq.projects) :
             add_task(Task(d.title, d.description, d.status, Some(emp), None, p))
    \/ \E i \in LookupIds(seq.projects) : query_get_tasks_by_project(i)
    \/ query_get_all_tasks
    \/ Return

SpecAssignment == InitAssignment /\ [][NextAssignment]_vars

\* The store with its shutdown operation, called at any time and any number
\* of times, between the calls of a run of one INSERT fewer
NextShutdown ==
    \/ close
    \/ Next /\ seq'.employees + seq'.projects + seq'.tasks < MaxInserts

SpecShutdown == Init /\ [][NextShutdown]_vars

----------------------------------------------------------------------------
(* Python floats.  A float is an IEEE 754 binary64 number: a sign, a         *)
(* significand of Precision bits (most significant first, the first one 1)   *)
(* and the power of two of its last bit; zero has no bits.  Division and     *)
(* multiplication round the exact result to the nearest such number, ties   *)
(* to the even significand.  The exact results are computed in groups of    *)
(* binary digits that fit 32-bit integers.  The numbers                     *)
(* of the model are far from the overflow and underflow thresholds of the   *)
(* format.                                                                  *)

\* the bits of the significand of a binary64 number
Precision == 53

\* the binary digits a step of the long division produces
QuotientGroup == 11

\* the groups of binary digits the long division produces below the point
QuotientGroups == 7

\* the binary digits a step of the multiplication takes
ProductGroup == 15

Abs(n) == IF n < 0 THEN -n ELSE n

Sign(n) == IF n < 0 THEN -1 ELSE 1

FloatZero == [sign |-> 1, bits |-> <<>>, exp |-> 0]

\* the w binary digits of a natural number below 2^w, most significant first
FixedBits(n, w) == [i \in 1..w |-> (n \div 2^(w - i)) % 2]

\* a sequence of binary digits without its leading zeros
Significant(bits) ==
    IF \A i \in 1..Len(bits) : bits[i] = 0 THEN <<>>
    ELSE LET first == CHOOSE i \in 1..Len(bits) :
                          bits[i] = 1 /\ \A j \in 1..(i - 1) : bits[j] = 0
         IN SubSeq(bits, first, Len(bits))

\* the binary digits of a natural number below 2^30, most significant first
BitsOf(n) == Significant(FixedBits(n, 30))

\* the natural number (below 2^30) a sequence of binary digits spells
RECURSIVE NatOf(_)
NatOf(bits) ==
    IF Len(bits) = 0 THEN 0
    ELSE IF Len(bits) = 1 THEN bits[1]
    ELSE LET half == Len(bits) \div 2
         IN NatOf(SubSeq(bits, 1, half)) * 2^(Len(bits) - half)
               + NatOf(SubSeq(bits, half + 1, Len(bits)))

\* a sequence of n zeros
Zeros(n) == [i \in 1..n |-> 0]

\* the binary digits plus one; a carry out of the first digit adds a digit
Increment(bits) ==
    IF \A i \in 1..Len(bits) : bits[i] = 1
    THEN <<1>> \o Zeros(Len(bits))
    ELSE LET low == CHOOSE i \in 1..Len(bits) :
                        bits[i] = 0 /\ \A j \in (i + 1)..Len(bits) : bits[j] = 1
         IN SubSeq(bits, 1, low - 1) \o <<1>> \o Zeros(Len(bits) - low)

\* Round the number bits * 2^exp (plus a nonzero tail below the last bit when
\* sticky) to Precision bits, to nearest, ties to even.
RoundToNearestEven(sign, bits, exp, sticky) ==
    IF Len(bits) <= Precision
    THEN [sign |-> sign, bits |-> bits \o Zeros(Precision - Len(bits)),
          exp |-> exp - (Precision - Len(bits))]
    ELSE LET kept == SubSeq(bits, 1, Precision)
             half == bits[Precision + 1]
             tail == sticky \/ \E i \in (Precision + 2)..Len(bits) : bits[i] = 1
             up == half = 1 /\ (tail \/ kept[Precision] = 1)
             rounded == IF up THEN Increment(kept) ELSE kept
             dropped == Len(bits) - Precision
         IN IF Len(rounded) > Precision
            THEN [sign |-> sign, bits |-> SubSeq(rounded, 1, Precision),
                  exp |-> exp + dropped + 1]
            ELSE [sign |-> sign, bits |-> rounded, exp |-> exp + dropped]

\* float(n) for an integer n
float(n) ==
    IF n = 0 THEN FloatZero
    ELSE RoundToNearestEven(Sign(n), BitsOf(Abs(n)), 0, FALSE)

\* Long division of a remainder r by b (r < b < 2^20): the digits of the
\* quotient below the binary point, a group at a time, and the remainder left
RECURSIVE QuotientDigits(_, _, _)
QuotientDigits(r, b, groups) ==
    IF groups = 0 THEN [bits |-> <<>>, rem |-> r]
    ELSE LET scaled == r * 2^QuotientGroup
             rest == QuotientDigits(scaled % b, b, groups - 1)
         IN [bits |-> FixedBits(scaled \div b, QuotientGroup) \o rest.bits,
             rem |-> rest.rem]

\* a / b for two integers, b > 0: Python's true division, correctly rounded
truediv(a, b) ==
    IF a = 0 THEN FloatZero
    ELSE LET q == QuotientDigits(Abs(a) % b, b, QuotientGroups)
         IN RoundToNearestEven(Sign(a),
                               Significant(BitsOf(Abs(a) \div b) \o q.bits),
                               -(QuotientGroup * QuotientGroups), q.rem # 0)

\* the digits of k * (the number with the digits bits) + carry, 0 < k < 2^15,
\* computed a group of digits at a time from the last digit
RECURSIVE ProductDigits(_, _, _)
ProductDigits(bits, k, carry) ==
    IF bits = <<>> THEN BitsOf(carry)
    ELSE LET cut == IF Len(bits) > ProductGroup THEN Len(bits) - ProductGroup ELSE 0
             v == k * NatOf(SubSeq(bits, cut + 1, Len(bits))) + carry
         IN ProductDigits(SubSeq(bits, 1, cut), k, v \div 2^(Len(bits) - cut))
               \o FixedBits(v % 2^(Len(bits) - cut), Len(bits) - cut)

\* k * x for an integer k and a float x: the exact product, rounded
mul(k, x) ==
    IF k = 0 \/ x.bits = <<>> THEN FloatZero
    ELSE RoundToNearestEven(Sign(k) * x.sign,
                            Significant(ProductDigits(x.bits, Abs(k), 0)),
                            x.exp, FALSE)

\* the digits of x are before those of y (as long) in the order of the numbers
DigitsLess(x, y) ==
    \E i \in 1..Len(x) : x[i] < y[i] /\ \A j \in 1..(i - 1) : x[j] = y[j]

\* x <= y for two floats that are not negative
FloatLeq(x, y) ==
    \/ x.bits = <<>>
    \/ /\ y.bits # <<>>
       /\ \/ x.exp < y.exp
          \/ x.exp = y.exp /\ (x.bits = y.bits \/ DigitsLess(x.bits, y.bits))

\* the digits of the sum of two numbers of as many digits each, plus carry,
\* computed a group of digits at a time from the last digit
RECURSIVE SumDigits(_, _, _)
SumDigits(a, b, carry) ==
    IF a = <<>> THEN BitsOf(carry)
    ELSE LET cut == IF Len(a) > ProductGroup THEN Len(a) - ProductGroup ELSE 0
             v == NatOf(SubSeq(a, cut + 1, Len(a)))
                     + NatOf(SubSeq(b, cut + 1, Len(b))) + carry
         IN SumDigits(SubSeq(a, 1, cut), SubSeq(b, 1, cut), v \div 2^(Len(a) - cut))
               \o FixedBits(v % 2^(Len(a) - cut), Len(a) - cut)

\* x + y for two floats that are not negative: the exact sum, rounded
add(x, y) ==
    IF x.bits = <<>> THEN y
    ELSE IF y.bits = <<>> THEN x
    ELSE LET low == IF x.exp < y.exp THEN x.exp ELSE y.exp
             xs == x.bits \o Zeros(x.exp - low)
             ys == y.bits \o Zeros(y.exp - low)
             width == IF Len(xs) > Len(ys) THEN Len(xs) ELSE Len(ys)
         IN RoundToNearestEven(1,
                Significant(SumDigits(Zeros(width - Len(xs)) \o xs,
                                      Zeros(width - Len(ys)) \o ys, 0)),
                low, FALSE)

\* Long division of the number with the digits bits by b, with the remainder
\* r carried in (r < b < 2^20): the digits of the quotient, a group at a time
\* from the first digit, and the remainder left
RECURSIVE LongDivision(_, _, _)
LongDivision(bits, b, r) ==
    IF bits = <<>> THEN [bits |-> <<>>, rem |-> r]
    ELSE LET w == IF Len(bits) > QuotientGroup THEN QuotientGroup ELSE Len(bits)
             scaled == r * 2^w + NatOf(SubSeq(bits, 1, w))
             rest == LongDivision(SubSeq(bits, w + 1, Len(bits)), b, scaled % b)
         IN [bits |-> FixedBits(scaled \div b, w) \o rest.bits, rem |-> rest.rem]

\* x / n for a float x and an integer n > 0: the exact quotient, rounded
truediv_float(x, n) ==
    IF x.bits = <<>> THEN FloatZero
    ELSE LET q == LongDivision(x.bits, n, 0)
             f == QuotientDigits(q.rem, n, QuotientGroups)
         IN RoundToNearestEven(x.sign, Significant(q.bits \o f.bits),
                               x.exp - QuotientGroup * QuotientGroups, f.rem # 0)

----------------------------------------------------------------------------
(* models.py: texts *)

Chars == {" ", "a"}

\* the texts of at most MaxStrLen characters
TextArgs == UNION { [1..n -> Chars] : n \in 0..MaxStrLen }

\* the characters str.strip() removes
IsSpace(c) == c \in {" ", "\t", "\n", "\r"}

RECURSIVE lstrip(_)
lstrip(s) == IF s # <<>> /\ IsSpace(Head(s)) THEN lstrip(Tail(s)) ELSE s

RECURSIVE rstrip(_)
rstrip(s) ==
    IF s # <<>> /\ IsSpace(s[Len(s)]) THEN rstrip(SubSeq(s, 1, Len(s) - 1)) ELSE s

\* str.strip()
strip(s) == rstrip(lstrip(s))

\* not value: only the empty text is rejected
IsEmptyText(value) == value = <<>>

\* not value.strip(): the stripped text is empty
Blank(value) == strip(value) = <<>>

----------------------------------------------------------------------------
(* models.py: an Employee object and the calls made on it *)

\* A method of an object returns at once: `last` is the call, `old` the
\* object as the call found it.
Invoke(op, arg, exc, before) ==
    /\ last' = [op |-> op, arg |-> arg, ret |-> None, exc |-> exc, rowcount |-> <<>>]
    /\ old' = before

ValueError == Some("ValueError")

SalaryArgs == {-1000, 0, 100000}
HoursArgs == {-8, 0, 88, 176}

Employee_set_id(value) ==
    /\ emp' = [emp EXCEPT !.id = value]
    /\ Invoke("Employee.set_id", value, None, emp)
    /\ UNCHANGED <<storeVars, connection, committed, task, proj, analytics, heap>>

Employee_set_name(value) ==
    /\ IF Blank(value)
       THEN emp' = emp /\ Invoke("Employee.set_name", value, ValueError, emp)
       ELSE emp' = [emp EXCEPT !.name = value]
            /\ Invoke("Employee.set_name", value, None, emp)
    /\ UNCHANGED <<storeVars, connection, committed, task, proj, analytics, heap>>

Employee_set_position(value) ==
    /\ emp' = [emp EXCEPT !.position = value]
    /\ Invoke("Employee.set_position", value, None, emp)
    /\ UNCHANGED <<storeVars, connection, committed, task, proj, analytics, heap>>

Employee_set_salary(value) ==
    /\ IF value < 0
       THEN emp' = emp /\ Invoke("Employee.set_salary", value, ValueError, emp)
       ELSE emp' = [emp EXCEPT !.salary = value]
            /\ Invoke("Employee.set_salary", value, None, emp)
    /\ UNCHANGED <<storeVars, connection, committed, task, proj, analytics, heap>>

\* add_hours that stores the hours it is given in place of adding them
Employee_set_hours(hours) ==
    /\ emp.hours_worked + hours <= MaxHours
    /\ IF hours < 0
       THEN emp' = emp /\ Invoke("Employee.add_hours", hours, ValueError, emp)
       ELSE emp' = [emp EXCEPT !.hours_worked = hours]
            /\ Invoke("Employee.add_hours", hours, None, emp)
    /\ UNCHANGED <<storeVars, connection, committed, task, proj, analytics, heap>>

\* add_hours with the assignment before the check: the error is raised after
\* the hours have changed
Employee_add_hours_then_check(hours) ==
    /\ emp.hours_worked + hours <= MaxHours
    /\ emp' = [emp EXCEPT !.hours_worked = emp.hours_worked + hours]
    /\ Invoke("Employee.add_hours", hours, IF hours < 0 THEN ValueError ELSE None, emp)
    /\ UNCHANGED <<storeVars, connection, committed, task, proj, analytics, heap>>

Employee_add_hours(hours) ==
    /\ emp.hours_worked + hours <= MaxHours
    /\ IF hours < 0
       THEN emp' = emp /\ Invoke("Employee.add_hours", hours, ValueError, emp)
       ELSE emp' = [emp EXCEPT !.hours_worked = emp.hours_worked + hours]
            /\ Invoke("Employee.add_hours", hours, None, emp)
    /\ UNCHANGED <<storeVars, connection, committed, task, proj, analytics, heap>>

\* Employee.calculate_pay
calculate_pay(employee) ==
    LET hourly_rate == truediv(employee.salary, 176)
    IN mul(employee.hours_worked, hourly_rate)

\* Employee(name, position, salary, hours_worked, employee_id) with any arguments
InitEmployee ==
    /\ employees = <<>>
    /\ projects = <<>>
    /\ tasks = <<>>
    /\ seq = [employees |-> 0, projects |-> 0, tasks |-> 0]
    /\ last = NoCall
    /\ old = None
    /\ emp \in { Employee(n, p, s, h, i) :
                    n \in TextArgs, p \in {Empty, Dev}, s \in SalaryArgs,
                    h \in HoursArgs, i \in IdValues(1) }
    /\ task = None
    /\ proj = None
    /\ analytics = None
    /\ heap = <<>>
    /\ connection = None
    /\ committed = NewFile

NextEmployee ==
    \/ \E v \in IdValues(1) : Employee_set_id(v)
    \/ \E v \in TextArgs : Employee_set_name(v)
    \/ \E v \in {Empty, Dev} : Employee_set_position(v)
    \/ \E v \in SalaryArgs : Employee_set_salary(v)
    \/ \E h \in HoursArgs : Employee_add_hours(h)

SpecEmployee == InitEmployee /\ [][NextEmployee]_vars

----------------------------------------------------------------------------
(* models.py: a Task object and the calls made on it *)

\* the status a caller passes to Task(...), or a row of the table holds
StatusArgs == {IN_PROGRESS, COMPLETED, "postponed"}

\* Task(title, description): the status, the assigned employee and the two
\* identifiers take their default values
TaskDefaults(title, description) ==
    Task(title, description, IN_PROGRESS, None, None, None)

\* Task.is_completed
is_completed(t) == t.status = COMPLETED

Task_set_id(value) ==
    /\ task' = [task EXCEPT !.id = value]
    /\ Invoke("Task.set_id", value, None, task)
    /\ UNCHANGED <<storeVars, connection, committed, emp, proj, analytics, heap>>

Task_set_title(value) ==
    /\ IF Blank(value)
       THEN task' = task /\ Invoke("Task.set_title", value, ValueError, task)
       ELSE task' = [task EXCEPT !.title = value]
            /\ Invoke("Task.set_title", value, None, task)
    /\ UNCHANGED <<storeVars, connection, committed, emp, proj, analytics, heap>>

Task_set_description(value) ==
    /\ task' = [task EXCEPT !.description = value]
    /\ Invoke("Task.set_description", value, None, task)
    /\ UNCHANGED <<storeVars, connection, committed, emp, proj, analytics, heap>>

Task_set_project_id(value) ==
    /\ task' = [task EXCEPT !.project_id = value]
    /\ Invoke("Task.set_project_id", value, None, task)
    /\ UNCHANGED <<storeVars, connection, committed, emp, proj, analytics, heap>>

Task_assign_employee(employee) ==
    /\ task' = [task EXCEPT !.assigned_employee = employee]
    /\ Invoke("Task.assign_employee", employee, None, task)
    /\ UNCHANGED <<storeVars, connection, committed, emp, proj, analytics, heap>>

\* a completion that reopens a task that is completed already
Task_toggle_complete ==
    /\ task' = [task EXCEPT !.status = IF task.status = COMPLETED
                                        THEN IN_PROGRESS ELSE COMPLETED]
    /\ Invoke("Task.mark_complete", None, None, task)
    /\ UNCHANGED <<storeVars, connection, committed, emp, proj, analytics, heap>>

Task_mark_complete ==
    /\ task' = [task EXCEPT !.status = COMPLETED]
    /\ Invoke("Task.mark_complete", None, None, task)
    /\ UNCHANGED <<storeVars, connection, committed, emp, proj, analytics, heap>>

\* Task(title, description, status, assigned_employee, task_id, project_id)
\* with any arguments, as a caller or the hydration of a row builds it
InitTask ==
    /\ employees = <<>>
    /\ projects = <<>>
    /\ tasks = <<>>
    /\ seq = [employees |-> 0, projects |-> 0, tasks |-> 0]
    /\ last = NoCall
    /\ old = None
    /\ emp = None
    /\ task \in { Task(t, d, st, a, i, p) :
                    t \in TextArgs, d \in {Empty, Dev}, st \in StatusArgs,
                    a \in AssignedArgs({Some(1)}), i \in IdValues(1),
                    p \in IdValues(1) }
    /\ proj = None
    /\ analytics = None
    /\ heap = <<>>
    /\ connection = None
    /\ committed = NewFile

NextTask ==
    \/ \E v \in IdValues(1) : Task_set_id(v)
    \/ \E v \in TextArgs : Task_set_title(v)
    \/ \E v \in {Empty, Dev} : Task_set_description(v)
    \/ \E v \in IdValues(1) : Task_set_project_id(v)
    \/ \E e \in AssignedArgs({Some(1)}) : Task_assign_employee(e)
    \/ Task_mark_complete

SpecTask == InitTask /\ [][NextTask]_vars

----------------------------------------------------------------------------
(* Properties of the store.  Each is stated of the state in which a call    *)
(* has returned: `old` holds the tables as the call found them.             *)

Returned(op) == last.op = op

\* every row of `before` other than `id` is in `after`, with the same columns
OthersUnchanged(before, after, id) ==
    \A i \in DOMAIN before :
        ~SqlEq(Some(i), id) => i \in DOMAIN after /\ after[i] = before[i]

\* C1: after delete_employee(e) the employee row e is gone, every task row
\* that referenced e is still there with its other columns unchanged and its
\* employee reference NULL, and there are as many task rows as before.
C1_DeleteEmployeeNullifies ==
    Returned("delete_employee") /\ last.arg # None =>
        /\ ~RowExists(employees, last.arg)
        /\ \A t \in DOMAIN old.tasks :
              old.tasks[t].employee_id = last.arg =>
                  /\ t \in DOMAIN tasks
                  /\ tasks[t] = [old.tasks[t] EXCEPT !.employee_id = None]
        /\ Cardinality(DOMAIN tasks) = Cardinality(DOMAIN old.tasks)

\* delete_employee has returned for an employee that existed, that one task
\* referenced and another task did not
C1_Witness ==
    /\ Returned("delete_employee")
    /\ RowExists(old.employees, last.arg)
    /\ \E t, u \in DOMAIN old.tasks :
          /\ old.tasks[t].employee_id = last.arg
          /\ old.tasks[u].employee_id # last.arg
    /\ last.rowcount = <<1, 1>>

\* C2: after delete_project(p) no task row refers to p and the project row p
\* is gone; every employee row, every other project row and every task row
\* of another project is unchanged.
C2_DeleteProjectCascades ==
    Returned("delete_project") /\ last.arg # None =>
        /\ \A t \in DOMAIN tasks : tasks[t].project_id # last.arg
        /\ ~RowExists(projects, last.arg)
        /\ employees = old.employees
        /\ OthersUnchanged(old.projects, projects, last.arg)
        /\ \A t \in DOMAIN old.tasks :
              old.tasks[t].project_id # last.arg =>
                  t \in DOMAIN tasks /\ tasks[t] = old.tasks[t]

\* delete_project has returned for a project that had a task, while another
\* project had a task too
C2_Witness ==
    /\ Returned("delete_project")
    /\ RowExists(old.projects, last.arg)
    /\ \E t, u \in DOMAIN old.tasks :
          /\ old.tasks[t].project_id = last.arg
          /\ old.tasks[u].project_id # last.arg
          /\ RowExists(old.projects, old.tasks[u].project_id)
    /\ last.rowcount = <<1, 1>>

AddOps == {"add_employee", "add_project", "add_task"}

\* the table an add_*, update_* call writes: as it is, and as it was before the call
TableOf(op) ==
    CASE op \in {"add_employee", "update_employee"} -> employees
      [] op \in {"add_project", "update_project"} -> projects
      [] op \in {"add_task", "update_task"} -> tasks

OldTableOf(op) ==
    CASE op \in {"add_employee", "update_employee"} -> old.employees
      [] op \in {"add_project", "update_project"} -> old.projects
      [] op \in {"add_task", "update_task"} -> old.tasks

\* the row an add_*, update_* call writes for the entity it is given
RowOf(op, entity) ==
    CASE op \in {"add_employee", "update_employee"} -> EmployeeRow(entity)
      [] op \in {"add_project", "update_project"} -> ProjectRow(entity)
      [] op \in {"add_task", "update_task"} -> TaskRow(entity)

\* an add_* call inserts exactly one new row, under the identifier it returns,
\* and changes no other row of any table
AddInsertsOneRow ==
    last.op \in AddOps =>
        /\ last.ret # None
        /\ ~RowExists(OldTableOf(last.op), last.ret)
        /\ DOMAIN TableOf(last.op) = DOMAIN OldTableOf(last.op) \cup {Get(last.ret)}
        /\ OthersUnchanged(old.employees, employees, None)
        /\ OthersUnchanged(old.projects, projects, None)
        /\ OthersUnchanged(old.tasks, tasks, None)
        /\ Cardinality(DOMAIN employees) + Cardinality(DOMAIN projects)
              + Cardinality(DOMAIN tasks)
           = Cardinality(DOMAIN old.employees) + Cardinality(DOMAIN old.projects)
              + Cardinality(DOMAIN old.tasks) + 1

\* C3: add_employee, add_project and add_task insert exactly one new row,
\* return its identifier, and leave the entity they were given carrying that
\* identifier (entity.get_id() = the returned identifier).
C3_AddAssignsIdentifier ==
    /\ AddInsertsOneRow
    /\ last.op \in AddOps => last.arg.id = last.ret

\* the task with identifier id in a list of fetched tasks, or None
FindTask(fetched, id) ==
    IF \E k \in 1..Len(fetched) : fetched[k].id = id
    THEN Some(fetched[CHOOSE k \in 1..Len(fetched) : fetched[k].id = id])
    ELSE None

\* the fetched task has the identifier and every other field of what was supplied
SameTask(fetched, supplied, id) ==
    /\ fetched # None
    /\ Get(fetched).id = id
    /\ Get(fetched).title = supplied.title
    /\ Get(fetched).description = supplied.description
    /\ Get(fetched).status = supplied.status
    /\ AssignedId(Get(fetched)) = AssignedId(supplied)
    /\ Get(fetched).project_id = supplied.project_id

RoundTripEmployee ==
    Returned("add_employee") =>
        get_employee_by_id(last.ret) = Some([last.arg EXCEPT !.id = last.ret])

RoundTripProject ==
    Returned("add_project") =>
        /\ get_project_by_id(last.ret) # None
        /\ Get(get_project_by_id(last.ret)).id = last.ret
        /\ Get(get_project_by_id(last.ret)).title = last.arg.title

RoundTripTask ==
    Returned("add_task") =>
        /\ SameTask(FindTask(get_all_tasks, last.ret), last.arg, last.ret)
        /\ last.arg.project_id # None =>
              SameTask(FindTask(get_tasks_by_project(last.arg.project_id), last.ret),
                       last.arg, last.ret)

\* the round trip of a task holds when the Employee object it is given carries
\* no identifier or the identifier of a row
RoundTripTaskOfStoredEmployee ==
    /\ Returned("add_task")
    /\ AssignedId(last.arg) = None \/ RowExists(employees, AssignedId(last.arg))
    => SameTask(FindTask(get_all_tasks, last.ret), last.arg, last.ret)

\* C4: an entity added with add_employee, add_project or add_task and fetched
\* by the returned identifier has that identifier and every other field as
\* supplied.
C4_RoundTrip ==
    RoundTripEmployee /\ RoundTripProject /\ RoundTripTask

UpdateOps == {"update_employee", "update_project", "update_task"}

\* C5: update_employee, update_project and update_task for an identifier that
\* has no row (an absent identifier included) insert no row and leave every
\* row of the three tables unchanged.
C5_UpdateOfMissingRowChangesNothing ==
    last.op \in UpdateOps /\ ~RowExists(OldTableOf(last.op), last.arg.id) =>
        /\ employees = old.employees
        /\ projects = old.projects
        /\ tasks = old.tasks
        /\ seq = old.seq

\* update_task has returned for the identifier of a task that was deleted,
\* while another task row exists
C5_Witness ==
    /\ Returned("update_task")
    /\ last.arg.id # None
    /\ ~RowExists(old.tasks, last.arg.id)
    /\ DOMAIN old.tasks # {}
    /\ last.rowcount = <<0>>

\* C6: update_*(entity) for an identifier that has a row leaves that row equal
\* to the entity's field values, whatever it held before, and changes no
\* other row.
C6_UpdateOverwritesItsRowOnly ==
    last.op \in UpdateOps /\ RowExists(OldTableOf(last.op), last.arg.id) =>
        /\ RowExists(TableOf(last.op), last.arg.id)
        /\ TableOf(last.op)[Get(last.arg.id)] = RowOf(last.op, last.arg)
        /\ DOMAIN employees = DOMAIN old.employees
        /\ DOMAIN projects = DOMAIN old.projects
        /\ DOMAIN tasks = DOMAIN old.tasks
        /\ OthersUnchanged(old.employees, employees,
                           IF last.op = "update_employee" THEN last.arg.id ELSE None)
        /\ OthersUnchanged(old.projects, projects,
                           IF last.op = "update_project" THEN last.arg.id ELSE None)
        /\ OthersUnchanged(old.tasks, tasks,
                           IF last.op = "update_task" THEN last.arg.id ELSE None)

\* update_task has returned for a task whose row held other values, while
\* another task row exists
C6_Witness ==
    /\ Returned("update_task")
    /\ RowExists(old.tasks, last.arg.id)
    /\ old.tasks[Get(last.arg.id)].status # last.arg.status
    /\ old.tasks[Get(last.arg.id)].employee_id # AssignedId(last.arg)
    /\ \E u \in DOMAIN old.tasks : Some(u) # last.arg.id
    /\ last.rowcount = <<1>>

\* C7: delete_task(t) removes the task row t and nothing else (nothing at all
\* when there is no row t): every other task row, every project row and every
\* employee row is unchanged.
C7_DeleteTaskRemovesOneRow ==
    Returned("delete_task") =>
        /\ DOMAIN tasks = {u \in DOMAIN old.tasks : Some(u) # last.arg}
        /\ OthersUnchanged(old.tasks, tasks, last.arg)
        /\ projects = old.projects
        /\ employees = old.employees

\* delete_task has returned for a task that existed, while a task with a
\* smaller identifier and a project row existed too
C7_Witness ==
    /\ Returned("delete_task")
    /\ RowExists(old.tasks, last.arg)
    /\ \E u \in DOMAIN tasks : u < Get(last.arg)
    /\ DOMAIN projects # {}
    /\ last.rowcount = <<1>>

\* C8: get_employee_by_id and get_project_by_id return None when the
\* identifier has no row (never added, or deleted) and an entity, the one of
\* that row, exactly when the row exists.
C8_LookupOfMissingRowIsNone ==
    /\ Returned("get_employee_by_id") =>
          /\ (last.ret = None) <=> ~RowExists(employees, last.arg)
          /\ last.ret # None =>
                /\ Get(last.ret).id = last.arg
                /\ EmployeeRow(Get(last.ret)) = employees[Get(last.arg)]
    /\ Returned("get_project_by_id") =>
          /\ (last.ret = None) <=> ~RowExists(projects, last.arg)
          /\ last.ret # None =>
                /\ Get(last.ret).id = last.arg
                /\ ProjectRow(Get(last.ret)) = projects[Get(last.arg)]

\* get_employee_by_id has returned None for an employee that was deleted,
\* while another employee row exists
C8_Witness ==
    /\ Returned("get_employee_by_id")
    /\ last.arg # None
    /\ Get(last.arg) <= seq.employees
    /\ ~RowExists(employees, last.arg)
    /\ DOMAIN employees # {}
    /\ last.ret = None

----------------------------------------------------------------------------
(* Properties of the records of models.py *)

EmployeeValid(e) ==
    /\ ~Blank(e.name)
    /\ e.salary >= 0
    /\ e.hours_worked >= 0

\* C9: in every state of an Employee object, after construction with any
\* arguments and any calls of its setters and of add_hours, the name is not
\* empty or whitespace-only, the salary is not negative and hours_worked is
\* not negative.
C9_EmployeeFieldsValid == EmployeeValid(emp)

\* the setters and add_hours keep the three conditions of an object that
\* satisfied them: only the constructor lets an invalid value in
EmployeeMethodsKeepValid ==
    last # NoCall /\ EmployeeValid(old) => EmployeeValid(emp)

\* C10: in every state of a Task object, after construction with any status
\* argument or hydration from any row, and any calls of its methods, the
\* status is one of the two values of Task.STATUSES.
C10_TaskStatusIsOneOfTwo == task.status \in {STATUSES[1], STATUSES[2]}

\* the methods of a Task keep the status of an object that had one of the two
\* values among them
TaskMethodsKeepStatusValid ==
    last # NoCall /\ old.status \in {STATUSES[1], STATUSES[2]} =>
        task.status \in {STATUSES[1], STATUSES[2]}

----------------------------------------------------------------------------
(* models.py: a Project object and the calls made on it *)

\* the Task objects a caller puts in the task list of a Project
TasksOfProject ==
    { Task(<<"a">>, Empty, IN_PROGRESS, None, None, None),
      Task(<<"a">>, Empty, COMPLETED, Some(Employee(Ann, Dev, 100000, 0, Some(1))),
           None, None),
      Task(<<"a">>, Empty, "postponed", None, None, None) }

\* the titles a caller gives a Project: empty, whitespace-only, and two others
TitleArgs == {Empty, <<" ">>, <<"a">>, <<" ", "a">>}

\* the lists of at most n of these tasks
TaskLists(n) == UNION { [1..k -> TasksOfProject] : k \in 0..n }

Project_set_id(value) ==
    /\ proj' = [proj EXCEPT !.id = value]
    /\ Invoke("Project.set_id", value, None, proj)
    /\ UNCHANGED <<storeVars, connection, committed, emp, task, analytics, heap>>

Project_set_title(value) ==
    /\ IF Blank(value)
       THEN proj' = proj /\ Invoke("Project.set_title", value, ValueError, proj)
       ELSE proj' = [proj EXCEPT !.title = value]
            /\ Invoke("Project.set_title", value, None, proj)
    /\ UNCHANGED <<storeVars, connection, committed, emp, task, analytics, heap>>

Project_set_tasks(ts) ==
    /\ proj' = set_tasks(proj, ts)
    /\ Invoke("Project.set_tasks", ts, None, proj)
    /\ UNCHANGED <<storeVars, connection, committed, emp, task, analytics, heap>>

Project_add_task(t) ==
    /\ Len(proj.tasks) < MaxTasks
    /\ proj' = [proj EXCEPT !.tasks = Append(proj.tasks, t)]
    /\ Invoke("Project.add_task", t, None, proj)
    /\ UNCHANGED <<storeVars, connection, committed, emp, task, analytics, heap>>

\* mark_complete() called on the k-th Task object of the list: the list holds
\* the object itself, not a copy
Project_task_mark_complete(k) ==
    /\ proj' = [proj EXCEPT !.tasks[k].status = COMPLETED]
    /\ Invoke("Task.mark_complete", k, None, proj)
    /\ UNCHANGED <<storeVars, connection, committed, emp, task, analytics, heap>>

\* project_progress that counts the tasks that are not completed
progress_of_open_tasks(project) ==
    IF Len(project.tasks) = 0
    THEN FloatZero
    ELSE LET open == Cardinality({k \in 1..Len(project.tasks) :
                                     project.tasks[k].status # COMPLETED})
         IN mul(100, truediv(open, Len(project.tasks)))

\* Project.project_progress
project_progress(project) ==
    IF Len(project.tasks) = 0
    THEN FloatZero
    ELSE LET completed == Cardinality({k \in 1..Len(project.tasks) :
                                          project.tasks[k].status = COMPLETED})
         IN mul(100, truediv(completed, Len(project.tasks)))

\* Project(title, project_id) with any arguments
InitProject ==
    /\ employees = <<>>
    /\ projects = <<>>
    /\ tasks = <<>>
    /\ seq = [employees |-> 0, projects |-> 0, tasks |-> 0]
    /\ connection = None
    /\ committed = NewFile
    /\ last = NoCall
    /\ old = None
    /\ emp = None
    /\ task = None
    /\ proj \in { Project(t, i) : t \in TitleArgs, i \in IdValues(1) }
    /\ analytics = None
    /\ heap = <<>>

NextProject ==
    \/ \E v \in IdValues(1) : Project_set_id(v)
    \/ \E v \in TitleArgs : Project_set_title(v)
    \/ \E ts \in TaskLists(2) : Project_set_tasks(ts)
    \/ \E t \in TasksOfProject : Project_add_task(t)
    \/ \E k \in 1..Len(proj.tasks) : Project_task_mark_complete(k)

SpecProject == InitProject /\ [][NextProject]_vars

----------------------------------------------------------------------------
(* models.py: an object of any of the three classes and the calls made on it *)

InitRecords == InitEmployee \/ InitTask \/ InitProject

NextRecords ==
    \/ emp # None /\ NextEmployee
    \/ task # None /\ NextTask
    \/ proj # None /\ NextProject

SpecRecords == InitRecords /\ [][NextRecords]_vars

----------------------------------------------------------------------------
(* analytics.py: get_task_statistics, a function of a list of projects *)

\* the lists of projects a caller passes: at most two projects, each with a
\* task list
ProjectLists ==
    LET ps == { set_tasks(Project(<<"a">>, None), ts) : ts \in TaskLists(MaxTasks - 1) }
    IN UNION { [1..n -> ps] : n \in 0..2 }

\* for project in projects: for task in project.get_tasks(): the tasks in the
\* order the two loops visit them
RECURSIVE TasksVisited(_)
TasksVisited(ps) ==
    IF ps = <<>> THEN <<>> ELSE Head(ps).tasks \o TasksVisited(Tail(ps))

\* a count of the tasks whose status is the first of Task.STATUSES
StartedTasks(ts) ==
    Cardinality({i \in 1..Len(ts) : ts[i].status = IN_PROGRESS})

\* if task.is_completed(): completed_tasks += 1
CompletedOf(ts) == Cardinality({i \in 1..Len(ts) : is_completed(ts[i])})

\* else: in_progress_tasks += 1
InProgressTasks(ts) == Cardinality({i \in 1..Len(ts) : ~is_completed(ts[i])})

\* if task.get_assigned_employee(): an Employee object is true, None is not
IsAssigned(t) == t.assigned_employee # None

\* assigned_tasks += 1
AssignedOf(ts) == Cardinality({i \in 1..Len(ts) : IsAssigned(ts[i])})

\* else: unassigned_tasks += 1
UnassignedOf(ts) == Cardinality({i \in 1..Len(ts) : ~IsAssigned(ts[i])})

\* (count / total * 100) if total > 0 else 0
Rate(count, total) == IF total > 0 THEN mul(100, truediv(count, total)) ELSE float(0)

get_task_statistics(ps) ==
    LET ts == TasksVisited(ps)
        total_tasks == Len(ts)
    IN [total |-> total_tasks,
        completed |-> CompletedOf(ts),
        in_progress |-> InProgressTasks(ts),
        assigned |-> AssignedOf(ts),
        unassigned |-> UnassignedOf(ts),
        completion_rate |-> Rate(CompletedOf(ts), total_tasks),
        assignment_rate |-> Rate(AssignedOf(ts), total_tasks)]

\* a caller computes the statistics of a list of projects
call_get_task_statistics(ps) ==
    /\ last = NoCall
    /\ last' = [op |-> "get_task_statistics", arg |-> ps,
                ret |-> Some(get_task_statistics(ps)), exc |-> None,
                rowcount |-> <<>>]
    /\ old' = ps
    /\ UNCHANGED <<storeVars, connection, committed, objectVars>>

InitStatistics ==
    /\ employees = <<>>
    /\ projects = <<>>
    /\ tasks = <<>>
    /\ seq = [employees |-> 0, projects |-> 0, tasks |-> 0]
    /\ connection = None
    /\ committed = NewFile
    /\ last = NoCall
    /\ old = None
    /\ emp = None
    /\ task = None
    /\ proj = None
    /\ analytics = None
    /\ heap = <<>>

NextStatistics ==
    \/ \E ps \in ProjectLists : call_get_task_statistics(ps)
    \/ Return

SpecStatistics == InitStatistics /\ [][NextStatistics]_vars

----------------------------------------------------------------------------
(* analytics.py: WorkAnalytics, the summaries of a list of employees and a   *)
(* list of projects.  A pandas.DataFrame built from a list of rows is that   *)
(* list; the keys of a row are written in ASCII.                             *)

\* WorkAnalytics(employees, projects)
WorkAnalytics(es, ps) == [employees |-> es, projects |-> ps]

\* the Employee objects a caller puts in the list: two of them have worked as
\* many hours
EmployeesOfAnalytics ==
    { Employee(Ann, Dev, 100000, 0, Some(1)),
      Employee(Bob, Empty, 0, 176, Some(2)),
      Employee(Ann, Dev, 100000, 176, Some(3)) }

\* the lists of at most MaxEmployees of these employees
EmployeeLists == UNION { [1..n -> EmployeesOfAnalytics] : n \in 0..MaxEmployees }

get_employees_summary(a) ==
    [k \in 1..Len(a.employees) |->
        LET e == a.employees[k]
        IN [ID |-> e.id, name |-> e.name, position |-> e.position,
            salary |-> e.salary, hours |-> e.hours_worked,
            pay |-> calculate_pay(e)]]

get_projects_summary(a) ==
    [k \in 1..Len(a.projects) |->
        LET p == a.projects[k]
            ts == p.tasks
            completed == Cardinality({i \in 1..Len(ts) : is_completed(ts[i])})
        IN [ID |-> p.id, title |-> p.title, total |-> Len(ts),
            completed |-> completed, progress |-> project_progress(p)]]

\* total = 0; for emp in es: total += emp.calculate_pay()
\* (the integer 0 the loop starts from equals the float 0.0)
RECURSIVE total_pay(_)
total_pay(es) ==
    IF es = <<>> THEN FloatZero
    ELSE add(total_pay(SubSeq(es, 1, Len(es) - 1)), calculate_pay(es[Len(es)]))

get_total_salary_expenses(a) == total_pay(a.employees)

\* total = 0; for emp in es: total += emp.get_hours_worked()
RECURSIVE total_hours(_)
total_hours(es) ==
    IF es = <<>> THEN 0
    ELSE total_hours(SubSeq(es, 1, Len(es) - 1)) + es[Len(es)].hours_worked

get_total_hours_worked(a) == total_hours(a.employees)

\* sum(emp.get_salary() for emp in es)
RECURSIVE total_salary(_)
total_salary(es) ==
    IF es = <<>> THEN 0
    ELSE total_salary(SubSeq(es, 1, Len(es) - 1)) + es[Len(es)].salary

get_average_salary(a) ==
    IF a.employees = <<>> THEN FloatZero
    ELSE truediv(total_salary(a.employees), Len(a.employees))

\* for proj in ps: total_tasks += len(proj.get_tasks())
RECURSIVE total_tasks(_)
total_tasks(ps) ==
    IF ps = <<>> THEN 0
    ELSE total_tasks(SubSeq(ps, 1, Len(ps) - 1)) + Len(ps[Len(ps)].tasks)

\* for proj in ps: completed_tasks += sum(1 for t in tasks if t.is_completed())
RECURSIVE completed_tasks(_)
completed_tasks(ps) ==
    IF ps = <<>> THEN 0
    ELSE completed_tasks(SubSeq(ps, 1, Len(ps) - 1))
            + Cardinality({i \in 1..Len(ps[Len(ps)].tasks) :
                              is_completed(ps[Len(ps)].tasks[i])})

\* the mean of the progress of the projects, each project counting as much
RECURSIVE total_progress(_)
total_progress(ps) ==
    IF ps = <<>> THEN FloatZero
    ELSE add(total_progress(SubSeq(ps, 1, Len(ps) - 1)),
             project_progress(ps[Len(ps)]))

mean_of_progress(a) ==
    IF a.projects = <<>> THEN FloatZero
    ELSE truediv_float(total_progress(a.projects), Len(a.projects))

get_overall_progress(a) ==
    IF a.projects = <<>> THEN FloatZero
    ELSE IF total_tasks(a.projects) = 0 THEN FloatZero
    ELSE mul(100, truediv(completed_tasks(a.projects), total_tasks(a.projects)))

\* a list from its last element to its first
Reverse(xs) == [k \in 1..Len(xs) |-> xs[Len(xs) + 1 - k]]

\* list.sort(): the elements in ascending order of their keys (keys[k] is the
\* key of xs[k]), an element before another of the same key when it is before
\* it in xs
stable_sort(xs, keys) ==
    LET place(i) == 1 + Cardinality({j \in 1..Len(xs) :
                                        \/ keys[j] < keys[i]
                                        \/ keys[j] = keys[i] /\ j < i})
    IN [p \in 1..Len(xs) |-> xs[CHOOSE i \in 1..Len(xs) : place(i) = p]]

\* a descending sort that sorts in ascending order and reverses the result
sorted_then_reversed(xs, keys, reverse) ==
    IF reverse THEN Reverse(stable_sort(xs, keys)) ELSE stable_sort(xs, keys)

\* sorted(xs, key=..., reverse=...): a new list; with reverse the list is
\* reversed, sorted in ascending order and reversed again, as list.sort does
sorted(xs, keys, reverse) ==
    IF reverse
    THEN Reverse(stable_sort(Reverse(xs), Reverse(keys)))
    ELSE stable_sort(xs, keys)

\* key=lambda e: e.get_hours_worked()
HoursKeys(es) == [k \in 1..Len(es) |-> es[k].hours_worked]

\* key=lambda p: p.project_progress().  The keys are floats, compared as
\* numbers: the key of a project is written as the number of projects of the
\* list whose progress is less, which orders the projects as their progress
\* does.
ProgressKeys(ps) ==
    [k \in 1..Len(ps) |->
        Cardinality({j \in 1..Len(ps) :
            ~FloatLeq(project_progress(ps[k]), project_progress(ps[j]))})]

get_employees_by_hours(a, descending) ==
    sorted(a.employees, HoursKeys(a.employees), descending)

get_projects_by_progress(a, descending) ==
    sorted(a.projects, ProgressKeys(a.projects), descending)

generate_report(a) ==
    [total_employees |-> Len(a.employees),
     total_projects |-> Len(a.projects),
     total_salary_expenses |-> get_total_salary_expenses(a),
     total_hours_worked |-> get_total_hours_worked(a),
     average_salary |-> get_average_salary(a),
     overall_progress |-> get_overall_progress(a),
     employees_summary |-> get_employees_summary(a),
     projects_summary |-> get_projects_summary(a)]

\* A method of the WorkAnalytics object returns at once: `last` is the call
\* and what it returned, `old` the object as the call found it.
Aggregate(op, arg, ret) ==
    /\ last = NoCall
    /\ last' = [op |-> op, arg |-> arg, ret |-> Some(ret), exc |-> None,
                rowcount |-> <<>>]
    /\ old' = analytics
    /\ UNCHANGED <<storeVars, connection, committed, emp, task, proj, heap>>

call_get_employees_summary ==
    /\ Aggregate("get_employees_summary", None, get_employees_summary(analytics))
    /\ analytics' = analytics

call_get_projects_summary ==
    /\ Aggregate("get_projects_summary", None, get_projects_summary(analytics))
    /\ analytics' = analytics

call_get_total_salary_expenses ==
    /\ Aggregate("get_total_salary_expenses", None,
                 get_total_salary_expenses(analytics))
    /\ analytics' = analytics

call_get_total_hours_worked ==
    /\ Aggregate("get_total_hours_worked", None, get_total_hours_worked(analytics))
    /\ analytics' = analytics

call_get_average_salary ==
    /\ Aggregate("get_average_salary", None, get_average_salary(analytics))
    /\ analytics' = analytics

call_get_overall_progress ==
    /\ Aggregate("get_overall_progress", None, get_overall_progress(analytics))
    /\ analytics' = analytics

\* list.sort(key=..., reverse=...) on the list of the object itself, returned
sort_employees_in_place(descending) ==
    /\ Aggregate("get_employees_by_hours", descending,
                 get_employees_by_hours(analytics, descending))
    /\ analytics' = [analytics EXCEPT
                        !.employees = get_employees_by_hours(analytics, descending)]

call_get_employees_by_hours(descending) ==
    /\ Aggregate("get_employees_by_hours", descending,
                 get_employees_by_hours(analytics, descending))
    /\ analytics' = analytics

call_get_projects_by_progress(descending) ==
    /\ Aggregate("get_projects_by_progress", descending,
                 get_projects_by_progress(analytics, descending))
    /\ analytics' = analytics

call_generate_report ==
    /\ Aggregate("generate_report", None, generate_report(analytics))
    /\ analytics' = analytics

\* get_task_statistics(projects) on the list of projects the object was given
call_get_task_statistics_of_analytics ==
    /\ Aggregate("get_task_statistics", None,
                 get_task_statistics(analytics.projects))
    /\ analytics' = analytics

\* the rows of a store in which an employee, a project and a task of that
\* project assigned to that employee were added
StoredSample ==
    Database((1 :> EmployeeRow(Employee(Ann, Dev, 100000, 0, None))),
             (1 :> ProjectRow(Project(Ann, None))),
             (1 :> TaskRow(Task(Ann, Empty, IN_PROGRESS,
                                Some(Employee(Ann, Dev, 100000, 0, Some(1))),
                                None, Some(1)))),
             [employees |-> 1, projects |-> 1, tasks |-> 1])

\* the lists the object is constructed with: employees only, projects only,
\* and at most one of each
AnalyticsArgs ==
    { WorkAnalytics(es, <<>>) : es \in EmployeeLists }
        \cup { WorkAnalytics(<<>>, ps) : ps \in ProjectLists }
        \cup { WorkAnalytics(es, ps) :
                  es \in {e \in EmployeeLists : Len(e) <= 1},
                  ps \in {p \in ProjectLists : Len(p) <= 1} }

\* WorkAnalytics(employees, projects) beside a store that holds rows
InitAnalytics ==
    /\ committed = StoredSample
    /\ employees = committed.employees
    /\ projects = committed.projects
    /\ tasks = committed.tasks
    /\ seq = committed.seq
    /\ connection = Connected
    /\ last = NoCall
    /\ old = None
    /\ emp = None
    /\ task = None
    /\ proj = None
    /\ analytics \in AnalyticsArgs
    /\ heap = <<>>

NextAnalytics ==
    \/ call_get_employees_summary
    \/ call_get_projects_summary
    \/ call_get_total_salary_expenses
    \/ call_get_total_hours_worked
    \/ call_get_average_salary
    \/ call_get_overall_progress
    \/ \E descending \in BOOLEAN : call_get_employees_by_hours(descending)
    \/ \E descending \in BOOLEAN : call_get_projects_by_progress(descending)
    \/ call_generate_report
    \/ call_get_task_statistics_of_analytics
    \/ Return

SpecAnalytics == InitAnalytics /\ [][NextAnalytics]_vars

\* C11: the status of a Task object only moves forward.  A Task constructed
\* without a status is in progress; mark_complete leaves it completed; and a
\* call of any method on a completed Task (set_id, set_title, set_description,
\* set_project_id, assign_employee, mark_complete again) leaves it completed.
C11_StatusOnlyMovesForward ==
    /\ last = NoCall /\ task = TaskDefaults(task.title, task.description) =>
          ~is_completed(task) /\ task.status = STATUSES[1]
    /\ Returned("Task.mark_complete") => is_completed(task)
    /\ last # NoCall /\ is_completed(old) => is_completed(task)

\* mark_complete has returned on a Task that was completed already, whose
\* title a call of set_title could still change
C11_Witness ==
    /\ Returned("Task.mark_complete")
    /\ is_completed(old)
    /\ is_completed(task)
    /\ ~Blank(task.title)

\* a text with no character other than whitespace: empty or whitespace-only
WhitespaceOnly(value) == \A k \in 1..Len(value) : IsSpace(value[k])

\* the object the pending call was made on
Receiver ==
    CASE emp # None -> emp
      [] task # None -> task
      [] proj # None -> proj

NameSetters == {"Employee.set_name", "Task.set_title", "Project.set_title"}
NumberSetters == {"Employee.set_salary", "Employee.add_hours"}

\* C12: a mutator whose argument fails validation (set_name and set_title of
\* an empty or whitespace-only text, set_salary and add_hours of a negative
\* number) raises ValueError and leaves every field of the object as it was
\* before the call; and no call that raises changes a field.
C12_FailedMutatorChangesNothing ==
    /\ last.op \in NameSetters /\ WhitespaceOnly(last.arg) =>
          last.exc = ValueError /\ Receiver = old
    /\ last.op \in NumberSetters /\ last.arg < 0 =>
          last.exc = ValueError /\ Receiver = old
    /\ last.exc # None => Receiver = old

\* add_hours of a negative number has raised on an Employee that has hours
C12_Witness ==
    /\ Returned("Employee.add_hours")
    /\ last.arg < 0
    /\ last.exc = ValueError
    /\ old.hours_worked > 0
    /\ emp = old

\* C13: set_name and set_title raise ValueError exactly when the text is empty
\* or whitespace-only; for every other text they raise nothing and the getter
\* then returns that text, as it was passed.
C13_NameRejectedIffBlank ==
    last.op \in NameSetters =>
        /\ last.exc = ValueError <=> WhitespaceOnly(last.arg)
        /\ last.exc # ValueError => last.exc = None
        /\ ~WhitespaceOnly(last.arg) =>
              IF last.op = "Employee.set_name"
              THEN emp.name = last.arg
              ELSE Receiver.title = last.arg

\* Project.set_title has accepted a text that starts with a space and has
\* replaced another title with it
C13_Witness ==
    /\ Returned("Project.set_title")
    /\ last.arg = <<" ", "a">>
    /\ last.exc = None
    /\ old.title # last.arg
    /\ proj.title = <<" ", "a">>

\* C14: the hours of an Employee object only increase.  No call decreases
\* hours_worked; an add_hours(h) that succeeds leaves it at its value before
\* the call plus h, with h >= 0; an add_hours that raises, and every other
\* method, leaves it as it was.  Over a sequence of calls the hours are thus
\* the initial hours plus the sum of the accepted arguments.
C14_HoursOnlyIncrease ==
    last # NoCall =>
        /\ emp.hours_worked >= old.hours_worked
        /\ IF Returned("Employee.add_hours") /\ last.exc = None
           THEN last.arg >= 0 /\ emp.hours_worked = old.hours_worked + last.arg
           ELSE emp.hours_worked = old.hours_worked

\* add_hours(88) has succeeded on an Employee that had 176 hours
C14_Witness ==
    /\ Returned("Employee.add_hours")
    /\ last.exc = None
    /\ last.arg = 88
    /\ old.hours_worked = 176
    /\ emp.hours_worked = 264

\* the parts of the pay property that hold: the pay is 0 at 0 hours, doubling
\* the hours doubles the pay, and the pay of a salary of 100000 is exactly
\* 150000 at 264 hours
PayIsLinearInHours ==
    /\ emp.hours_worked = 0 => calculate_pay(emp) = float(0)
    /\ calculate_pay([emp EXCEPT !.hours_worked = 2 * emp.hours_worked])
          = mul(2, calculate_pay(emp))
    /\ emp.salary = 100000 /\ emp.hours_worked = 264 =>
          calculate_pay(emp) = float(150000)

\* C15: calculate_pay is hours_worked x (salary / 176): it is 0 at 0 hours,
\* doubling the hours doubles the pay, and for a salary of 100000 the pay is
\* exactly 100000 at 176 hours and exactly 150000 at 264 hours.
C15_PayIsHoursTimesRate ==
    /\ PayIsLinearInHours
    /\ emp.salary = 100000 /\ emp.hours_worked = 176 =>
          calculate_pay(emp) = float(100000)

\* the completed tasks of the list of a Project object
CompletedTasks(project) ==
    Cardinality({i \in 1..Len(project.tasks) : is_completed(project.tasks[i])})

\* C16: project_progress of a project with n tasks of which k are completed
\* is the float (k / n) * 100 when n > 0, which is 100.0 when all tasks are
\* completed and 50.0 when half of them are; it is 0.0 when the list is
\* empty; and it always lies between 0 and 100.
C16_ProgressIsCompletedShare ==
    \A n \in {Len(proj.tasks)}, k \in {CompletedTasks(proj)},
       progress \in {project_progress(proj)} :
       /\ n = 0 => progress = float(0)
       /\ n > 0 => progress = mul(100, truediv(k, n))
       /\ n > 0 /\ k = n => progress = float(100)
       /\ n > 0 /\ 2 * k = n => progress = float(50)
       /\ FloatLeq(float(0), progress)
       /\ FloatLeq(progress, float(100))

\* mark_complete has been called on one of the two tasks of a project of which
\* none was completed, and the progress is 50.0
C16_Witness ==
    /\ Returned("Task.mark_complete")
    /\ Len(proj.tasks) = 2
    /\ CompletedTasks(old) = 0
    /\ CompletedTasks(proj) = 1
    /\ project_progress(old) = float(0)
    /\ project_progress(proj) = float(50)

\* the sum of the lengths of the task lists of a list of projects
RECURSIVE TotalLength(_)
TotalLength(ps) ==
    IF ps = <<>> THEN 0 ELSE Len(Head(ps).tasks) + TotalLength(Tail(ps))

\* C17: for every list of projects, the counts get_task_statistics returns
\* satisfy total = completed + in_progress and total = assigned + unassigned,
\* total is the sum of the lengths of the task lists of the projects, and
\* completion_rate and assignment_rate are 0 when total is 0.
C17_StatisticsAddUp ==
    Returned("get_task_statistics") =>
        \A s \in {Get(last.ret)} :
            /\ s.total = s.completed + s.in_progress
            /\ s.total = s.assigned + s.unassigned
            /\ s.total = TotalLength(last.arg)
            /\ s.total = 0 =>
                  s.completion_rate = float(0) /\ s.assignment_rate = float(0)

\* the statistics of two projects that hold, together, a completed task, a
\* task in progress and a task whose status is neither of the two
C17_Witness ==
    /\ Returned("get_task_statistics")
    /\ Len(last.arg) = 2
    /\ Len(last.arg[1].tasks) > 0
    /\ Len(last.arg[2].tasks) > 0
    /\ \E t \in TasksOfProject :
          /\ t.status \notin {IN_PROGRESS, COMPLETED}
          /\ \E i \in 1..Len(last.arg[2].tasks) : last.arg[2].tasks[i] = t
    /\ Get(last.ret).completed > 0
    /\ Get(last.ret).in_progress > Get(last.ret).completed
    /\ Get(last.ret).assigned > 0

\* C18: close() raises nothing, whether a connection is held or not (so not
\* when it is called twice in a row), and leaves the store without a
\* connection and the rows as they were; every other operation raises nothing
\* and leaves the store holding a connection, acquiring one when close() was
\* called before it: no operation but close() releases the connection.
C18_CloseIsIdempotent ==
    /\ Returned("close") =>
          /\ last.exc = None
          /\ connection = None
          /\ employees = old.employees /\ projects = old.projects
          /\ tasks = old.tasks /\ seq = old.seq
    /\ last # NoCall /\ ~Returned("close") =>
          /\ last.exc = None
          /\ connection # None
          /\ old.connection # None => connection = old.connection

\* close() has returned a second time in a row, on a store that has rows
C18_Witness ==
    /\ Returned("close")
    /\ old.connection = None
    /\ connection = None
    /\ DOMAIN employees # {}
    /\ DOMAIN tasks # {}

\* delete_project and delete_employee leave no reference to the row they
\* delete: what the two claims below would need of every operation
DeletesLeaveNoReference ==
    /\ Returned("delete_project") =>
          \A t \in DOMAIN tasks : ~SqlEq(tasks[t].project_id, last.arg)
    /\ Returned("delete_employee") =>
          \A t \in DOMAIN tasks : ~SqlEq(tasks[t].employee_id, last.arg)

\* C19: every task belongs to exactly one project.  After any sequence of
\* store operations every task row carries a project reference that is not
\* NULL and is the identifier of a row of the projects table.
C19_TaskBelongsToProject ==
    \A t \in DOMAIN tasks :
        /\ tasks[t].project_id # None
        /\ RowExists(projects, tasks[t].project_id)

\* C20: task-to-employee references never dangle.  After any sequence of
\* store operations, add_task and update_task with an Employee object whose
\* row has been deleted included, the employee reference of every task row
\* is NULL or the identifier of a row of the employees table.
C20_EmployeeReferenceNeverDangles ==
    \A t \in DOMAIN tasks :
        tasks[t].employee_id = None \/ RowExists(employees, tasks[t].employee_id)

----------------------------------------------------------------------------
(* Properties of the summaries of analytics.py *)

AggregationOps ==
    {"get_employees_summary", "get_projects_summary",
     "get_total_salary_expenses", "get_total_hours_worked",
     "get_average_salary", "get_overall_progress", "get_employees_by_hours",
     "get_projects_by_progress", "generate_report", "get_task_statistics"}

\* C21: no aggregation operation changes what it is given or the store.  In
\* every step in which get_employees_summary, get_projects_summary, a scalar
\* (total salary expenses, total hours, average salary, overall progress),
\* get_employees_by_hours, get_projects_by_progress, generate_report or
\* get_task_statistics is called, the two lists of the WorkAnalytics object
\* are after the call what they were before it (the same entities with the
\* same fields in the same order), and so are the rows and counters of the
\* store, those written to its file included.
C21_AggregationChangesNothing ==
    [][last'.op \in AggregationOps =>
          /\ analytics' = analytics
          /\ employees' = employees /\ projects' = projects
          /\ tasks' = tasks /\ seq' = seq
          /\ committed' = committed]_vars

\* get_employees_by_hours has returned the employees in another order than
\* that of the list it was given, beside a store that holds rows
C21_Witness ==
    /\ Returned("get_employees_by_hours")
    /\ Len(analytics.employees) = 3
    /\ Get(last.ret) # analytics.employees
    /\ analytics = old
    /\ DOMAIN tasks # {}

\* C22: get_overall_progress is the ratio, in percent, of the completed tasks
\* of all the projects to the tasks of all the projects (computed in floats,
\* as (completed / total) * 100), and 0.0 when there is no project or the
\* projects hold no task: every task counts as much, whatever its project.
C22_OverallProgressIsTaskWeighted ==
    Returned("get_overall_progress") =>
        \A ts \in {TasksVisited(analytics.projects)} :
            Get(last.ret) = IF Len(ts) = 0 THEN float(0)
                            ELSE mul(100, truediv(CompletedOf(ts), Len(ts)))

\* the overall progress of a project whose one task is completed and a
\* project with two tasks, none completed: a third, where the mean of the
\* progress of the two projects is a half
C22_Witness ==
    /\ Returned("get_overall_progress")
    /\ Len(analytics.projects) = 2
    /\ Len(analytics.projects[1].tasks) = 1
    /\ Len(analytics.projects[2].tasks) = 2
    /\ project_progress(analytics.projects[1]) = float(100)
    /\ project_progress(analytics.projects[2]) = float(0)
    /\ mean_of_progress(analytics) = float(50)
    /\ Get(last.ret) = mul(100, truediv(1, 3))
    /\ Get(last.ret) # float(50)

\* the one-to-one maps of the places of a list of n elements
PlaceMaps(n) ==
    {s \in [1..n -> 1..n] : \A k, l \in 1..n : s[k] = s[l] => k = l}

\* ys holds the elements of xs, each once, in the order of their keys
\* (ascending, or descending), the elements of equal keys in the order they
\* have in xs; less is the set of the pairs <<i, j>> of places of xs such that
\* the key of xs[i] is less than the key of xs[j]
IsStableSort(xs, ys, less, descending) ==
    /\ Len(ys) = Len(xs)
    /\ \E s \in PlaceMaps(Len(xs)) :
          /\ \A k \in 1..Len(xs) : ys[k] = xs[s[k]]
          /\ \A k, l \in 1..Len(xs) :
                k < l =>
                   /\ IF descending THEN <<s[k], s[l]>> \notin less
                                    ELSE <<s[l], s[k]>> \notin less
                   /\ (<<s[k], s[l]>> \notin less /\ <<s[l], s[k]>> \notin less)
                         => s[k] < s[l]

\* C23: get_employees_by_hours returns a permutation of the employees it was
\* given in order of their hours worked, and get_projects_by_progress a
\* permutation of the projects in order of their progress: ascending when the
\* flag is false, descending when it is true, and in both directions two
\* elements of equal keys are in the order they have in the input.
C23_SortIsStablePermutation ==
    /\ Returned("get_employees_by_hours") =>
          IsStableSort(analytics.employees, Get(last.ret),
                       {p \in (1..Len(analytics.employees)) \X (1..Len(analytics.employees)) :
                           analytics.employees[p[1]].hours_worked
                              < analytics.employees[p[2]].hours_worked},
                       last.arg)
    /\ Returned("get_projects_by_progress") =>
          IsStableSort(analytics.projects, Get(last.ret),
                       {p \in (1..Len(analytics.projects)) \X (1..Len(analytics.projects)) :
                           ~FloatLeq(project_progress(analytics.projects[p[2]]),
                                     project_progress(analytics.projects[p[1]]))},
                       last.arg)

\* a descending sort of three employees: the first and the third have worked
\* as many hours, more than the second, and are returned in that order
C23_Witness ==
    /\ Returned("get_employees_by_hours")
    /\ last.arg = TRUE
    /\ Len(analytics.employees) = 3
    /\ analytics.employees[1] # analytics.employees[3]
    /\ analytics.employees[1].hours_worked = analytics.employees[3].hours_worked
    /\ analytics.employees[2].hours_worked < analytics.employees[1].hours_worked
    /\ Get(last.ret) = <<analytics.employees[1], analytics.employees[3],
                         analytics.employees[2]>>

----------------------------------------------------------------------------
(* storage.py: the objects the read operations construct.  An object is held *)
(* by its address in `heap`; a Task object holds the address of its Employee *)
(* object and a Project object the addresses of its Task objects, so that    *)
(* two holders of one object see each other's changes and the holders of two *)
(* objects do not.                                                           *)

IsEmployee(object) == "salary" \in DOMAIN object
IsTask(object) == "status" \in DOMAIN object
IsProject(object) == "tasks" \in DOMAIN object

\* an identity map: the Employee object constructed before for the same row
\* is returned again
cached_Employee(h, e) ==
    IF \E a \in DOMAIN h : IsEmployee(h[a]) /\ h[a].id = e.id
    THEN [heap |-> h,
          ref |-> CHOOSE a \in DOMAIN h : IsEmployee(h[a]) /\ h[a].id = e.id]
    ELSE [heap |-> Append(h, e), ref |-> Len(h) + 1]

\* Employee(employee_id=row[0], ...): a new object
new_Employee(h, e) == [heap |-> Append(h, e), ref |-> Len(h) + 1]

\* Task(task_id=row[0], ..., assigned_employee=employee, ...): a new object
\* that holds the Employee object get_employee_by_id constructed for it
new_Task(h, t) ==
    IF t.assigned_employee = None
    THEN [heap |-> Append(h, t), ref |-> Len(h) + 1]
    ELSE LET employee == new_Employee(h, Get(t.assigned_employee))
         IN [heap |-> Append(employee.heap,
                             [t EXCEPT !.assigned_employee = Some(employee.ref)]),
             ref |-> Len(employee.heap) + 1]

\* for row in cursor.fetchall(): ...; employees.append(emp)
RECURSIVE new_Employees(_, _)
new_Employees(h, es) ==
    IF es = <<>> THEN [heap |-> h, ref |-> <<>>]
    ELSE LET first == new_Employee(h, Head(es))
             rest == new_Employees(first.heap, Tail(es))
         IN [heap |-> rest.heap, ref |-> <<first.ref>> \o rest.ref]

\* for row in cursor.fetchall(): ...; tasks.append(task)
RECURSIVE new_Tasks(_, _)
new_Tasks(h, ts) ==
    IF ts = <<>> THEN [heap |-> h, ref |-> <<>>]
    ELSE LET first == new_Task(h, Head(ts))
             rest == new_Tasks(first.heap, Tail(ts))
         IN [heap |-> rest.heap, ref |-> <<first.ref>> \o rest.ref]

\* project = Project(project_id=row[0], title=row[1]);
\* project.set_tasks(self.get_tasks_by_project(project.get_id()))
new_Project(h, p) ==
    LET ts == new_Tasks(Append(h, p), p.tasks)
    IN [heap |-> [ts.heap EXCEPT ![Len(h) + 1].tasks = ts.ref], ref |-> Len(h) + 1]

\* for row in cursor.fetchall(): ...; projects.append(project)
RECURSIVE new_Projects(_, _)
new_Projects(h, ps) ==
    IF ps = <<>> THEN [heap |-> h, ref |-> <<>>]
    ELSE LET first == new_Project(h, Head(ps))
             rest == new_Projects(first.heap, Tail(ps))
         IN [heap |-> rest.heap, ref |-> <<first.ref>> \o rest.ref]

\* A read operation called between two calls: it returns the addresses of the
\* objects it has constructed (or None) and leaves the rows as they are.
Fetch(op, arg, built, ret) ==
    /\ last = NoCall
    /\ Len(built.heap) <= MaxObjects
    /\ last' = [op |-> op, arg |-> arg, ret |-> ret, exc |-> None, rowcount |-> <<>>]
    /\ old' = [employees |-> employees, projects |-> projects, tasks |-> tasks,
               seq |-> seq, connection |-> connection, heap |-> heap]
    /\ connection' = _get_connection
    /\ heap' = built.heap
    /\ UNCHANGED <<storeVars, committed, emp, task, proj, analytics>>

fetch_employee_by_id(employee_id) ==
    LET found == get_employee_by_id(employee_id)
        built == IF found = None THEN [heap |-> heap, ref |-> None]
                 ELSE new_Employee(heap, Get(found))
    IN Fetch("get_employee_by_id", employee_id, built,
             IF found = None THEN None ELSE Some(built.ref))

fetch_all_employees ==
    LET built == new_Employees(heap, get_all_employees)
    IN Fetch("get_all_employees", None, built, built.ref)

fetch_project_by_id(project_id) ==
    LET found == get_project_by_id(project_id)
        built == IF found = None THEN [heap |-> heap, ref |-> None]
                 ELSE new_Project(heap, Get(found))
    IN Fetch("get_project_by_id", project_id, built,
             IF found = None THEN None ELSE Some(built.ref))

fetch_all_projects ==
    LET built == new_Projects(heap, get_all_projects)
    IN Fetch("get_all_projects", None, built, built.ref)

fetch_tasks_by_project(project_id) ==
    LET built == new_Tasks(heap, get_tasks_by_project(project_id))
    IN Fetch("get_tasks_by_project", project_id, built, built.ref)

fetch_all_tasks ==
    LET built == new_Tasks(heap, get_all_tasks)
    IN Fetch("get_all_tasks", None, built, built.ref)

\* A method of models.py called on the object at an address
Mutate(op, address, exc, object) ==
    /\ last = NoCall
    /\ last' = [op |-> op, arg |-> address, ret |-> None, exc |-> exc,
                rowcount |-> <<>>]
    /\ old' = [employees |-> employees, projects |-> projects, tasks |-> tasks,
               seq |-> seq, connection |-> connection, heap |-> heap]
    /\ heap' = [heap EXCEPT ![address] = object]
    /\ UNCHANGED <<storeVars, connection, committed, emp, task, proj, analytics>>

\* Employee.set_name on a fetched object
object_set_name(address, value) ==
    /\ IsEmployee(heap[address])
    /\ IF Blank(value)
       THEN Mutate("Employee.set_name", address, ValueError, heap[address])
       ELSE Mutate("Employee.set_name", address, None,
                   [heap[address] EXCEPT !.name = value])

\* Task.mark_complete on a fetched object
object_mark_complete(address) ==
    /\ IsTask(heap[address])
    /\ Mutate("Task.mark_complete", address, None,
              [heap[address] EXCEPT !.status = COMPLETED])

\* Project.set_title on a fetched object
object_set_title(address, value) ==
    /\ IsProject(heap[address])
    /\ IF Blank(value)
       THEN Mutate("Project.set_title", address, ValueError, heap[address])
       ELSE Mutate("Project.set_title", address, None,
                   [heap[address] EXCEPT !.title = value])

\* The store is filled with an employee, a project and tasks of the project
\* assigned to the employee or to nobody; its rows are then read, the objects
\* read are changed and an Employee object read is saved.
NextReads ==
    \/ /\ heap = <<>>
       /\ \/ seq.employees = 0 /\ add_employee(Employee(Ann, Dev, 100000, 0, None))
          \/ seq.projects = 0 /\ add_project(Project(Ann, None))
          \/ /\ seq.employees = 1 /\ seq.projects = 1
             /\ \E a \in AssignedArgs({Some(1)}) :
                   add_task(Task(Ann, Empty, IN_PROGRESS, a, None, Some(1)))
    \/ \E i \in LookupIds(seq.employees) : fetch_employee_by_id(i)
    \/ fetch_all_employees
    \/ \E i \in LookupIds(seq.projects) : fetch_project_by_id(i)
    \/ fetch_all_projects
    \/ \E i \in LookupIds(seq.projects) : fetch_tasks_by_project(i)
    \/ fetch_all_tasks
    \/ \E a \in DOMAIN heap : \E v \in {Empty, Bob} : object_set_name(a, v)
    \/ \E a \in DOMAIN heap : object_mark_complete(a)
    \/ \E a \in DOMAIN heap : \E v \in {Empty, Bob} : object_set_title(a, v)
    \/ \E a \in DOMAIN heap : IsEmployee(heap[a]) /\ update_employee(heap[a])
    \/ Return

SpecReads == Init /\ [][NextReads]_vars

----------------------------------------------------------------------------
(* Properties of the read operations of the store *)

ReadOps ==
    {"get_all_employees", "get_employee_by_id", "get_all_projects",
     "get_project_by_id", "get_tasks_by_project", "get_all_tasks"}

ObjectOps == {"Employee.set_name", "Task.mark_complete", "Project.set_title"}

\* the addresses of a Task object and of the Employee object it holds
TaskAddresses(h, t) ==
    <<t>> \o (IF h[t].assigned_employee = None THEN <<>>
              ELSE <<Get(h[t].assigned_employee)>>)

RECURSIVE TasksAddresses(_, _)
TasksAddresses(h, ts) ==
    IF ts = <<>> THEN <<>>
    ELSE TaskAddresses(h, Head(ts)) \o TasksAddresses(h, Tail(ts))

RECURSIVE ProjectsAddresses(_, _)
ProjectsAddresses(h, ps) ==
    IF ps = <<>> THEN <<>>
    ELSE <<Head(ps)>> \o TasksAddresses(h, h[Head(ps)].tasks)
            \o ProjectsAddresses(h, Tail(ps))

\* the addresses of the objects the caller of the last read operation has
\* got: the entities returned, the tasks of the projects and the employees
\* of the tasks, an address as many times as it is held
Constructed ==
    CASE last.op = "get_employee_by_id" -> last.ret
      [] last.op = "get_all_employees" -> last.ret
      [] last.op = "get_project_by_id" -> ProjectsAddresses(heap, last.ret)
      [] last.op = "get_all_projects" -> ProjectsAddresses(heap, last.ret)
      [] last.op \in {"get_tasks_by_project", "get_all_tasks"} ->
            TasksAddresses(heap, last.ret)

\* an object constructed from a row has the identifier and the columns of
\* the row
Hydrated(object) ==
    /\ object.id # None
    /\ IsEmployee(object) =>
          /\ RowExists(employees, object.id)
          /\ EmployeeRow(object) = employees[Get(object.id)]
    /\ IsTask(object) =>
          /\ RowExists(tasks, object.id)
          /\ object.title = tasks[Get(object.id)].title
          /\ object.status = tasks[Get(object.id)].status
          /\ object.project_id = tasks[Get(object.id)].project_id
    /\ IsProject(object) =>
          /\ RowExists(projects, object.id)
          /\ object.title = projects[Get(object.id)].title

\* C24: a read operation (get_all_employees, get_employee_by_id,
\* get_all_projects, get_project_by_id, get_tasks_by_project, get_all_tasks)
\* leaves every row of the store and every object constructed before as it
\* was, and every entity it returns (a task of a project and the employee of
\* a task included) is a new object, held once, with the columns of its
\* row; and a method called on one object leaves every row and every other
\* object as it was: two entities fetched for one identifier are independent.
C24_ReadsConstructNewEntities ==
    /\ last.op \in ReadOps =>
          /\ employees = old.employees /\ projects = old.projects
          /\ tasks = old.tasks /\ seq = old.seq
          /\ \A a \in DOMAIN old.heap : a \in DOMAIN heap /\ heap[a] = old.heap[a]
          /\ \A k \in DOMAIN Constructed :
                /\ Constructed[k] \in DOMAIN heap
                /\ Constructed[k] \notin DOMAIN old.heap
                /\ Hydrated(heap[Constructed[k]])
                /\ \A l \in DOMAIN Constructed :
                      Constructed[k] = Constructed[l] => k = l
    /\ last.op \in ObjectOps =>
          /\ employees = old.employees /\ projects = old.projects
          /\ tasks = old.tasks /\ seq = old.seq
          /\ DOMAIN heap = DOMAIN old.heap
          /\ \A a \in DOMAIN heap : a # last.arg => heap[a] = old.heap[a]

\* set_name has changed one of two Employee objects fetched for the same
\* identifier: the other object and the row have the name they had
C24_Witness ==
    /\ Returned("Employee.set_name")
    /\ last.exc = None
    /\ \E b \in DOMAIN heap :
          /\ b # last.arg
          /\ IsEmployee(heap[b])
          /\ heap[b].id = heap[last.arg].id
          /\ heap[b].name # heap[last.arg].name
          /\ heap[b] = old.heap[last.arg]
          /\ employees[Get(heap[b].id)].name = heap[b].name

----------------------------------------------------------------------------
(* Properties of the store over its life *)

\* C25: the initialization of the store is idempotent.  DatabaseManager(...)
\* on a file that holds the three tables (a second object on the same file,
\* or a restart after close()) raises no error and leaves every row of
\* employees, projects and tasks, and every counter, as it was, in the file
\* and as the new object reads them; on a new file it creates the three
\* tables, empty.
C25_InitializationIsIdempotent ==
    Returned("DatabaseManager") =>
        /\ last.exc = None
        /\ connection # None
        /\ DOMAIN committed = {"employees", "projects", "tasks", "seq"}
        /\ committed = Database(employees, projects, tasks, seq)
        /\ IF old.committed = NewFile
           THEN employees = <<>> /\ projects = <<>> /\ tasks = <<>>
           ELSE /\ committed = old.committed
                /\ employees = old.employees /\ projects = old.projects
                /\ tasks = old.tasks /\ seq = old.seq

\* a DatabaseManager has been constructed, after a close(), on a file
\* whose three tables hold rows
C25_Witness ==
    /\ Returned("DatabaseManager")
    /\ old.committed # NewFile
    /\ old.connection = None
    /\ DOMAIN employees # {}
    /\ DOMAIN projects # {}
    /\ DOMAIN tasks # {}

\* a task row of the tables ts refers to the employee
Referenced(ts, employee_id) ==
    \E t \in DOMAIN ts : SqlEq(ts[t].employee_id, employee_id)

\* C26: within delete_employee the tasks that refer to the employee are
\* updated before the employee row is deleted, and the file changes once,
\* at the commit, by both statements.  After the first statement no task
\* row the connection reads refers to the employee, the employee row is
\* still there and the file is as it was; after the second the row is gone
\* from what the connection reads and the file is still as it was; when the
\* method has returned the file holds what the connection reads.  Neither
\* in the file nor in what the connection reads is the row removed while a
\* task refers to it, and a fault after the first statement leaves the
\* employee row in place, in both.
C26_DeleteEmployeeIsOrderedAndAtomic ==
    last.op \in {UpdateExecuted, DeleteExecuted, "delete_employee"} =>
        /\ ~Referenced(tasks, last.arg)
        /\ (RowExists(old.employees, last.arg) /\ ~RowExists(employees, last.arg))
              => ~Referenced(tasks, last.arg)
        /\ (RowExists(old.committed.employees, last.arg)
               /\ ~RowExists(committed.employees, last.arg))
              => ~Referenced(committed.tasks, last.arg)
        /\ last.op = UpdateExecuted =>
              employees = old.employees /\ committed = old.committed
        /\ last.op = DeleteExecuted =>
              ~RowExists(employees, last.arg) /\ committed = old.committed
        /\ (last.op = "delete_employee" /\ last.exc = None) =>
              /\ ~RowExists(employees, last.arg)
              /\ committed = Database(employees, projects, tasks, seq)
        /\ (last.op = "delete_employee" /\ last.exc # None) =>
              /\ committed = old.committed
              /\ Len(last.rowcount) = 1 => employees = old.employees

\* a fault after the first statement of the deletion of an employee a task
\* refers to: the connection reads the task without its employee and the
\* employee row, and the file holds both rows as they were
C26_Witness ==
    /\ last.op = "delete_employee"
    /\ last.exc # None
    /\ Len(last.rowcount) = 1
    /\ last.rowcount[1] > 0
    /\ RowExists(employees, last.arg)
    /\ Referenced(old.tasks, last.arg)
    /\ Referenced(committed.tasks, last.arg)
    /\ RowExists(committed.employees, last.arg)

\* the field of the counters, and the table, an add operation writes
CounterOf(op) ==
    CASE op = "add_employee" -> "employees"
      [] op = "add_project" -> "projects"
      [] op = "add_task" -> "tasks"

\* C27: identifiers are never reused.  The counter of a table never
\* decreases, no row has an identifier above it, and add_employee,
\* add_project and add_task return one more than the counter and leave the
\* counter at the identifier returned: the counter is the largest identifier
\* ever returned for the table, so that an identifier returned differs from
\* every one returned before, those of rows deleted since included.
C27_IdentifiersNeverReused ==
    /\ \A i \in DOMAIN employees : i <= seq.employees
    /\ \A i \in DOMAIN projects : i <= seq.projects
    /\ \A i \in DOMAIN tasks : i <= seq.tasks
    /\ last # NoCall =>
          /\ seq.employees >= old.seq.employees
          /\ seq.projects >= old.seq.projects
          /\ seq.tasks >= old.seq.tasks
    /\ last.op \in AddOps =>
          /\ Get(last.ret) = old.seq[CounterOf(last.op)] + 1
          /\ seq[CounterOf(last.op)] = Get(last.ret)
          /\ Get(last.ret) \notin DOMAIN OldTableOf(last.op)
          /\ Get(last.ret) \in DOMAIN TableOf(last.op)

\* add_employee has returned after the employee added last was deleted and
\* no employee is left: the identifier is not the one of the deleted row
C27_Witness ==
    /\ Returned("add_employee")
    /\ old.employees = <<>>
    /\ old.seq.employees = 2
    /\ Get(last.ret) = 3
    /\ DOMAIN employees = {3}

\* what does hold of get_all_projects(): the tasks reached are the stored
\* tasks whose project is a stored project, each once
ProjectsHoldTheirTasks ==
    \A reached \in {TasksVisited(get_all_projects)} :
        /\ \A l \in 1..Len(reached) : RowExists(projects, reached[l].project_id)
        /\ \A t \in DOMAIN tasks :
              RowExists(projects, tasks[t].project_id) =>
                 Cardinality({l \in 1..Len(reached) : reached[l].id = Some(t)}) = 1
        /\ Len(reached) = Cardinality({t \in DOMAIN tasks :
                                          RowExists(projects, tasks[t].project_id)})

\* C28: the tasks reachable through get_all_projects() are exactly the tasks
\* get_all_tasks() returns, each once: after any sequence of store
\* operations every stored task is in the task list of one project, and
\* get_task_statistics over get_all_projects() counts every stored task.
C28_ProjectsHoldEveryTask ==
    \A reached \in {TasksVisited(get_all_projects)} :
        /\ Len(reached) = Len(get_all_tasks)
        /\ \A k \in 1..Len(get_all_tasks) :
              Cardinality({l \in 1..Len(reached) :
                              reached[l] = get_all_tasks[k]}) = 1
        /\ get_task_statistics(get_all_projects).total = Cardinality(DOMAIN tasks)

\* C29: an assignment survives persistence.  When the Employee object e was
\* saved with add_employee(e) and a Task assigned to e is saved with
\* add_task, the task row refers to the row of e, and the task fetched has
\* an assigned employee with the fields of e.
C29_AssignmentSurvivesPersistence ==
    (Returned("add_task") /\ last.arg.assigned_employee = Some(emp)) =>
        /\ tasks[Get(last.ret)].employee_id = Some(1)
        /\ employees[1] = EmployeeRow(emp)
        /\ HydrateTask(Get(last.ret)).assigned_employee # None
        /\ EmployeeRow(Get(HydrateTask(Get(last.ret)).assigned_employee))
              = EmployeeRow(emp)

\* C30: completion is one-way in the store.  Once a task row has the status
\* completed, no update_task (no other operation of the store either, the
\* deletion of the task or of its project apart) leaves that row with
\* another status: not an update_task issued to assign an employee or to
\* edit the task from a Task object fetched before the task was completed.
C30_CompletionIsOneWayInStore ==
    last # NoCall =>
        \A t \in DOMAIN old.tasks :
            (old.tasks[t].status = COMPLETED /\ t \in DOMAIN tasks)
               => tasks[t].status = COMPLETED

====
